---------------------------- MODULE Spec2Model ----------------------------
(***************************************************************************)
(* A model of xiss: the global identifier allocator (global_id.rs), the    *)
(* persistent map and its append log (css_map.rs) and the line parser of   *)
(* the map file (xiss-map/src/parser.rs).                                  *)
(*                                                                         *)
(* Strings are sequences of bytes (numbers, as in ID_CHARS), so slicing,   *)
(* scanning and formatting are computed character by character.  Rust      *)
(* indices are 0-based: s[a..b] is Slice(s, a, b).                         *)
(***************************************************************************)
EXTENDS Integers, Sequences, FiniteSets, TLC

VARIABLES
    index,          \* CssMap.index: module id -> module index
    modules,        \* CssMap.modules: the module table
    classes,        \* CssMap.classes: the IdSet of kind Class
    vars,           \* CssMap.vars: the IdSet of kind Var
    keyframes,      \* CssMap.keyframes: the IdSet of kind Keyframes
    new_ids_buf,    \* CssMap.new_ids_buf: the pending-append buffer
    written,        \* the bytes the map writer has accepted so far
    ret,            \* the last call and what it returned
    mintLog,        \* the ids minted since the last flush that returned Ok
    hist,           \* counters of the run: imports, mints, writer faults
    parser,         \* xiss_map::parser::Parser (s, iter, line_num, prev_module_id)
    yielded         \* the rows Parser::next_id has yielded so far

allVars == <<index, modules, classes, vars, keyframes, new_ids_buf, written,
             ret, mintLog, hist, parser, yielded>>

mapVars == <<index, modules, classes, vars, keyframes>>

-----------------------------------------------------------------------------
(* Bounds of the exploration *)

\* Imports, mints and writer faults of one run, together.
MaxCalls == 3
\* Rows of a parsed input.
MaxRows == 2

\* The identifier generator is applied to the indices 0..MaxIndex and to
\* Window indices on each side of the first index of each word length.
MaxIndex == 120
Window == 3

\* States of a class map, and @exclude rules of a class map.
MaxStates == 3
MaxExcludes == 2

-----------------------------------------------------------------------------
(* Characters *)

Comma == 44
Newline == 10
KindCharC == 67
KindCharV == 86
KindCharK == 75

Lower == 97..122
Upper == 65..90
Digit == 48..57
Underscore == {95}
Dash == {45}
Slash == {47}

Slice(s, a, b) == SubSeq(s, a + 1, b)

IdKinds == {"Class", "Var", "Keyframes"}

-----------------------------------------------------------------------------
(* global_id.rs *)

\* The table with the ten digits moved in front of the letters.
ID_CHARS_digits_first ==
    <<48, 49, 50, 51, 52, 53, 54, 55, 56, 57,
      97, 98, 99, 100, 101, 102, 103, 104, 105, 106, 107, 108, 109, 110, 111,
      112, 113, 114, 115, 116, 117, 118, 119, 120, 121, 122, 65, 66, 67, 68,
      69, 70, 71, 72, 73, 74, 75, 76, 77, 78, 79, 80, 81, 82, 83, 84, 85, 86,
      87, 88, 89, 90, 95, 45>>

ID_CHARS ==
    <<97, 98, 99, 100, 101, 102, 103, 104, 105, 106, 107, 108, 109, 110, 111,
      112, 113, 114, 115, 116, 117, 118, 119, 120, 121, 122, 65, 66, 67, 68,
      69, 70, 71, 72, 73, 74, 75, 76, 77, 78, 79, 80, 81, 82, 83, 84, 85, 86,
      87, 88, 89, 90, 48, 49, 50, 51, 52, 53, 54, 55, 56, 57, 95, 45>>

BufLen == 4

\* An index past the end of the [u8; 4] buffer panics; no identifier holds a 0 byte.
Panic == <<0>>

\* while i >= base { i -= base; base <<= 6; }
RECURSIVE ReduceIndex(_, _)
ReduceIndex(i, base) ==
    IF i >= base THEN ReduceIndex(i - base, base * 64) ELSE <<i, base>>

\* while base > 1 { i %= base; base >>= 6; result[p] = ID_CHARS[i / base]; p += 1; }
RECURSIVE WriteDigits(_, _, _)
WriteDigits(i, base, result) ==
    IF base > 1
    THEN LET i2 == i % base
             b2 == base \div 64
         IN  IF Len(result) >= BufLen
             THEN Panic
             ELSE WriteDigits(i2, b2, Append(result, ID_CHARS[(i2 \div b2) + 1]))
    ELSE result

\* A generator whose first loop never widens the base: every index is reduced
\* to a word of one character.
index_to_css_identifier_one_char(i) == <<ID_CHARS[(i % 52) + 1]>>

index_to_css_identifier(i) ==
    LET r == ReduceIndex(i, 52)
        base == r[2] \div 52
    IN  WriteDigits(r[1], base, <<ID_CHARS[(r[1] \div base) + 1]>>)

\* The exclude list: each pattern is an anchored prefix such as "^ad".
IsPrefix(p, s) == Len(p) <= Len(s) /\ SubSeq(s, 1, Len(p)) = p
is_match(exclude, uid) == \E p \in exclude : IsPrefix(p, uid)

IdSet_new(idx, exclude) == [index |-> idx, exclude |-> exclude, set |-> {}]

IdSet_add(id_set, id) == [id_set EXCEPT !.set = @ \cup {id}]

\* A next_id without the `!self.set.contains(uid)` test of line 47.
RECURSIVE IdSet_next_id_ignores_set(_)
IdSet_next_id_ignores_set(id_set) ==
    IF index_to_css_identifier(id_set.index) = Panic
    THEN [id |-> Panic, id_set |-> id_set]
    ELSE IF ~is_match(id_set.exclude, index_to_css_identifier(id_set.index))
    THEN [id |-> index_to_css_identifier(id_set.index),
          id_set |-> [id_set EXCEPT !.index = @ + 1]]
    ELSE IdSet_next_id_ignores_set([id_set EXCEPT !.index = @ + 1])

\* Returns the id and the set with its counter advanced past the candidates drawn.
RECURSIVE IdSet_next_id(_)
IdSet_next_id(id_set) ==
    LET uid == index_to_css_identifier(id_set.index)
        adv == [id_set EXCEPT !.index = @ + 1]
    IN  IF uid = Panic THEN [id |-> Panic, id_set |-> id_set]
        ELSE IF ~is_match(id_set.exclude, uid) /\ uid \notin id_set.set
        THEN [id |-> uid, id_set |-> adv]
        ELSE IdSet_next_id(adv)

-----------------------------------------------------------------------------
(* xiss-map/src/parser.rs *)

Err(kind) == [ok |-> FALSE, err |-> [kind |-> kind, line_num |-> 0]]
InvalidChar(i, c) ==
    [ok |-> FALSE, err |-> [kind |-> "InvalidChar", pos |-> i, char |-> c, line_num |-> 0]]
with_line_num(r, line_num) == [r EXCEPT !.err.line_num = line_num]

\* `for (i, c) in iter`: the index of the first character at or after i that is
\* not in `accepted`, or Len(s) when the iterator runs out.
RECURSIVE ScanWhile(_, _, _)
ScanWhile(s, i, accepted) ==
    IF i < Len(s) /\ s[i + 1] \in accepted THEN ScanWhile(s, i + 1, accepted) ELSE i

\* `iter` is the number of characters the shared iterator has consumed.
parse_id_kind(s, iter) ==
    IF iter >= Len(s)
    THEN [ok |-> TRUE, n |-> 0, kind |-> "Class", iter |-> iter]
    ELSE LET c == s[iter + 1] IN
         IF c \notin {KindCharC, KindCharV, KindCharK}
         THEN InvalidChar(iter, c)
         ELSE LET kind == IF c = KindCharC THEN "Class"
                          ELSE IF c = KindCharV THEN "Var" ELSE "Keyframes"
              IN  IF iter + 1 >= Len(s)
                  THEN Err("UnexpectedEOL")
                  ELSE IF s[iter + 2] = Comma
                  THEN [ok |-> TRUE, n |-> 2, kind |-> kind, iter |-> iter + 2]
                  ELSE InvalidChar(iter + 1, s[iter + 2])

\* The end of the module id field, the scan having stopped at index i.
parse_module_id_end(s, i) ==
    IF i >= Len(s)
    THEN Err("UnexpectedEOL")
    ELSE IF s[i + 1] = Comma
    THEN [ok |-> TRUE, i |-> i + 1, id |-> Slice(s, 2, i), iter |-> i + 1]
    ELSE InvalidChar(i, s[i + 1])

parse_module_id(s, iter) ==
    IF iter >= Len(s)
    THEN Err("UnexpectedEOL")
    ELSE IF s[iter + 1] \notin (Lower \cup Upper \cup Digit \cup Underscore)
    THEN InvalidChar(iter, s[iter + 1])
    ELSE parse_module_id_end(s,
             ScanWhile(s, iter + 1,
                       Lower \cup Upper \cup Digit \cup Underscore \cup Dash \cup Slash))

parse_local_id_end(s, start, i) ==
    IF i >= Len(s)
    THEN Err("UnexpectedEOL")
    ELSE IF s[i + 1] = Comma
    THEN [ok |-> TRUE, i |-> i + 1, id |-> Slice(s, start, i), iter |-> i + 1]
    ELSE InvalidChar(i, s[i + 1])

parse_local_id(s, start, iter) ==
    IF iter >= Len(s)
    THEN Err("UnexpectedEOL")
    ELSE IF s[iter + 1] \notin (Lower \cup Upper \cup Underscore)
    THEN InvalidChar(iter, s[iter + 1])
    ELSE parse_local_id_end(s, start,
             ScanWhile(s, iter + 1, Lower \cup Upper \cup Digit \cup Underscore))

parse_global_id_end(s, start, i) ==
    IF i >= Len(s)
    THEN [ok |-> TRUE, id |-> Slice(s, start, Len(s)), iter |-> Len(s)]
    ELSE IF s[i + 1] = Newline
    THEN [ok |-> TRUE, id |-> Slice(s, start, i), iter |-> i + 1]
    ELSE InvalidChar(i, s[i + 1])

parse_global_id(s, start, iter) ==
    IF iter >= Len(s)
    THEN Err("UnexpectedEOL")
    ELSE IF s[iter + 1] \notin (Lower \cup Upper)
    THEN InvalidChar(iter, s[iter + 1])
    ELSE parse_global_id_end(s, start,
             ScanWhile(s, iter + 1, Lower \cup Upper \cup Digit \cup Underscore \cup Dash))

\* parse_line, one `?` at a time: k, m, l and g are the results of the four
\* field parsers.  Ok(None) is [ok |-> TRUE, some |-> FALSE].
parse_line_global(k, m, l, g) ==
    IF ~g.ok THEN g
    ELSE [ok |-> TRUE, some |-> TRUE, iter |-> g.iter, kind |-> k.kind,
          module_id |-> m.id, local_id |-> l.id, global_id |-> g.id]

parse_line_local(s, k, m, l) ==
    IF ~l.ok THEN l ELSE parse_line_global(k, m, l, parse_global_id(s, l.i, l.iter))

parse_line_module(s, k, m) ==
    IF ~m.ok THEN m ELSE parse_line_local(s, k, m, parse_local_id(s, m.i, m.iter))

parse_line_kind(s, k) ==
    IF ~k.ok THEN k
    ELSE IF k.n # 2 THEN [ok |-> TRUE, some |-> FALSE, iter |-> k.iter]
    ELSE parse_line_module(s, k, parse_module_id(s, k.iter))

parse_line(s, iter) == parse_line_kind(s, parse_id_kind(s, iter))

Parser_new(s) == [s |-> s, iter |-> 0, line_num |-> 1, prev_module_id |-> <<>>]

None == [some |-> FALSE]
Some(v) == [some |-> TRUE, v |-> v]

\* next_id, given the result `line` of parse_line: the result of the call, and
\* the parser after it.
next_id_line(p, line) ==
    IF ~line.ok
    THEN [res |-> with_line_num(line, p.line_num), parser |-> p]
    ELSE IF ~line.some
    THEN [res |-> [ok |-> TRUE, some |-> FALSE], parser |-> [p EXCEPT !.iter = line.iter]]
    ELSE IF p.prev_module_id = line.module_id
    THEN [res |-> [ok |-> TRUE, some |-> TRUE, kind |-> line.kind,
                   module_id |-> None,
                   local_id |-> line.local_id, global_id |-> line.global_id],
          parser |-> [p EXCEPT !.iter = line.iter, !.line_num = @ + 1]]
    ELSE [res |-> [ok |-> TRUE, some |-> TRUE, kind |-> line.kind,
                   module_id |-> Some(line.module_id),
                   local_id |-> line.local_id, global_id |-> line.global_id],
          parser |-> [p EXCEPT !.iter = line.iter, !.line_num = @ + 1,
                               !.prev_module_id = line.module_id]]

Parser_next_id(p) == next_id_line(p, parse_line(p.s, p.iter))

-----------------------------------------------------------------------------
(* id.rs and css_map.rs.  A CssMap is the record                           *)
(* [index, modules, classes, vars, keyframes, new_ids_buf]; a sub-map is a *)
(* function from local ids to Ids.                                        *)

Id_new(kind, module_index, local_id, global_id) ==
    [kind |-> kind, module_index |-> module_index,
     local_id |-> local_id, global_id |-> global_id]

EmptyMap == [x \in {} |-> x]

MapInsert(map, key, value) ==
    [x \in DOMAIN map \cup {key} |-> IF x = key THEN value ELSE map[x]]

CssMapModule_new(id, idx) ==
    [id |-> id, index |-> idx,
     classes |-> EmptyMap, vars |-> EmptyMap, keyframes |-> EmptyMap]

CssMap_new(exclude_class, exclude_var, exclude_keyframes) ==
    [index |-> EmptyMap,
     modules |-> <<>>,
     classes |-> IdSet_new(0, exclude_class),
     vars |-> IdSet_new(0, exclude_var),
     keyframes |-> IdSet_new(0, exclude_keyframes),
     new_ids_buf |-> <<>>]

\* A selection that gives every kind the sub-map and the IdSet of the classes.
KindField_shared(kind) == "classes"

\* The field of a module (its sub-map) and of the map (its IdSet) a kind selects.
KindField(kind) ==
    CASE kind = "Class" -> "classes"
      [] kind = "Var" -> "vars"
      [] kind = "Keyframes" -> "keyframes"

id_char(kind) ==
    CASE kind = "Class" -> KindCharC
      [] kind = "Var" -> KindCharV
      [] kind = "Keyframes" -> KindCharK

insert_id(module_id, map, id_set, id) ==
    IF id.local_id \notin DOMAIN map
    THEN [ok |-> TRUE,
          id_set |-> IdSet_add(id_set, id.global_id),
          map |-> MapInsert(map, id.local_id, id)]
    ELSE [ok |-> FALSE,
          err |-> [kind |-> "DuplicateEntry", id_kind |-> id.kind,
                   module_id |-> module_id, local_id |-> id.local_id]]

\* A get_module_index without the lookup of line 189: it pushes a module on
\* every call.
get_module_index_always_pushes(m, module_name) ==
    [map |-> [m EXCEPT
                !.index = MapInsert(@, module_name, Len(m.modules)),
                !.modules = Append(@, CssMapModule_new(module_name, Len(m.modules)))],
     index |-> Len(m.modules)]

\* The map after the call, and the index returned.
get_module_index(m, module_name) ==
    IF module_name \in DOMAIN m.index
    THEN [map |-> m, index |-> m.index[module_name]]
    ELSE LET module_id == Len(m.modules) IN
         [map |-> [m EXCEPT
                     !.index = MapInsert(@, module_name, module_id),
                     !.modules = Append(@, CssMapModule_new(module_name, module_id))],
          index |-> module_id]

\* import, lines 81-92: the module of a row that names one is looked up or
\* pushed; the result is the map and the module index of the row.
ImportModule(m, row, module_index) ==
    IF ~row.module_id.some
    THEN [map |-> m, module_index |-> module_index]
    ELSE IF row.module_id.v \in DOMAIN m.index
    THEN [map |-> m, module_index |-> m.index[row.module_id.v]]
    ELSE [map |-> [m EXCEPT
                     !.modules = Append(@, CssMapModule_new(row.module_id.v, Len(m.modules))),
                     !.index = MapInsert(@, row.module_id.v, Len(m.modules))],
          module_index |-> Len(m.modules)]

\* import, lines 100-108: what insert_id returned (`ins`) is stored or raised.
ImportInserted(r, f, ins) ==
    IF ~ins.ok
    THEN [ok |-> FALSE, err |-> ins.err, map |-> r.map, module_index |-> r.module_index]
    ELSE [ok |-> TRUE,
          map |-> [r.map EXCEPT ![f] = ins.id_set,
                                !.modules[r.module_index + 1][f] = ins.map],
          module_index |-> r.module_index]

\* import, lines 93-109, r being the result of ImportModule.
ImportId(r, row) ==
    IF r.module_index >= Len(r.map.modules)
    THEN [ok |-> TRUE, map |-> r.map, module_index |-> r.module_index]
    ELSE LET module == r.map.modules[r.module_index + 1]
             f == KindField(row.kind)
         IN  ImportInserted(r, f,
                 insert_id(module.id, module[f], r.map[f],
                           Id_new(row.kind, module.index, row.local_id, row.global_id)))

\* One turn of import's `while let` loop for a yielded row.
ImportRow(m, row, module_index) == ImportId(ImportModule(m, row, module_index), row)

RECURSIVE ImportLoop(_, _, _)

\* The loop after the insertion of a row: `?` returns the error.
ImportLoopRow(p, r) ==
    IF ~r.ok
    THEN [map |-> r.map, result |-> [ok |-> FALSE, err |-> r.err]]
    ELSE ImportLoop(r.map, p, r.module_index)

\* The loop after next_id returned n.
ImportLoopNext(m, module_index, n) ==
    IF ~n.res.ok
    THEN [map |-> m, result |-> [ok |-> FALSE, err |-> n.res.err]]
    ELSE IF ~n.res.some
    THEN [map |-> m, result |-> [ok |-> TRUE]]
    ELSE ImportLoopRow(n.parser, ImportRow(m, n.res, module_index))

ImportLoop(m, p, module_index) == ImportLoopNext(m, module_index, Parser_next_id(p))

\* The map after the call, and the Result returned.
CssMap_import(m, reader) ==
    IF ~reader.ok
    THEN [map |-> m, result |-> [ok |-> FALSE, err |-> [kind |-> "IOError"]]]
    ELSE ImportLoop(m, Parser_new(reader.text), 0)

FormatRow(kind, module_id, local_id, global_id) ==
    <<id_char(kind), Comma>> \o module_id \o <<Comma>> \o local_id
        \o <<Comma>> \o global_id \o <<Newline>>

\* The kind the minted Id is constructed with.
MintedIdKind(id_kind) == "Class"

\* get_id, lines 126-147, nx being what next_id returned.
CssMap_mint(m, module_index, id_kind, local_id, nx) ==
    [map |-> [m EXCEPT
                ![KindField(id_kind)] = nx.id_set,
                !.new_ids_buf =
                    @ \o FormatRow(id_kind, m.modules[module_index + 1].id, local_id, nx.id),
                !.modules[module_index + 1][KindField(id_kind)] =
                    MapInsert(@, local_id,
                              Id_new(MintedIdKind(id_kind), module_index, local_id, nx.id))],
     id |-> Id_new(MintedIdKind(id_kind), module_index, local_id, nx.id),
     minted |-> TRUE]

\* A get_id without the lookup of lines 122-125: it mints on every call.
CssMap_get_id_always_mints(m, module_index, id_kind, local_id) ==
    CssMap_mint(m, module_index, id_kind, local_id,
                IdSet_next_id(m[KindField(id_kind)]))

\* The map after the call, the Id returned, and whether it was minted.
CssMap_get_id(m, module_index, id_kind, local_id) ==
    IF local_id \in DOMAIN m.modules[module_index + 1][KindField(id_kind)]
    THEN [map |-> m,
          id |-> m.modules[module_index + 1][KindField(id_kind)][local_id],
          minted |-> FALSE]
    ELSE CssMap_mint(m, module_index, id_kind, local_id,
                     IdSet_next_id(m[KindField(id_kind)]))

\* What the writer does with one flush_new_ids call: write() fails, or accepts
\* the first n bytes it is given; then flush() fails or succeeds.
WriterOutcomes(len) ==
    {[write_ok |-> FALSE, n |-> 0, flush_ok |-> FALSE]}
      \cup [write_ok : {TRUE}, n : {len \div 2, len}, flush_ok : BOOLEAN]

\* A flush_new_ids that clears the buffer whatever write and flush returned.
CssMap_flush_new_ids_always_clears(buf, w) ==
    IF ~w.write_ok
    THEN [new_ids_buf |-> <<>>, taken |-> <<>>, ok |-> FALSE]
    ELSE [new_ids_buf |-> <<>>, taken |-> SubSeq(buf, 1, w.n), ok |-> w.flush_ok]

\* The buffer after the call, the bytes the writer took, and the Result.
CssMap_flush_new_ids(buf, w) ==
    IF ~w.write_ok
    THEN [new_ids_buf |-> buf, taken |-> <<>>, ok |-> FALSE]
    ELSE IF ~w.flush_ok
    THEN [new_ids_buf |-> buf, taken |-> SubSeq(buf, 1, w.n), ok |-> FALSE]
    ELSE [new_ids_buf |-> <<>>, taken |-> SubSeq(buf, 1, w.n), ok |-> TRUE]

-----------------------------------------------------------------------------
(* The inputs of the exploration *)

ModuleNames == {<<109>>, <<110, 47, 120>>}      \* "m", "n/x"
Locals == {<<108>>, <<107>>}                     \* "l", "k"

\* The exclude list the map is constructed with for vars: "^b".
ExcludeVar == {<<98>>}

\* The get_id calls explored: (module_index, kind, local_id).
GetIdInputs ==
    { <<0, "Class", <<108>>>>, <<0, "Class", <<107>>>>, <<0, "Var", <<108>>>>,
      <<0, "Keyframes", <<108>>>>, <<1, "Class", <<108>>>> }

\* A row of a map file, as the four fields it is written from.
RowOf(kind, module_id, local_id, global_id) ==
    [kind |-> kind, module_id |-> module_id, local_id |-> local_id, global_id |-> global_id]

\* The text of a list of rows, each written as get_id writes it.
RECURSIVE FormatRows(_)
FormatRows(rows) ==
    IF rows = <<>> THEN <<>>
    ELSE FormatRow(rows[1].kind, rows[1].module_id, rows[1].local_id, rows[1].global_id)
             \o FormatRows(Tail(rows))

\* A map file: its rows, and the characters that follow them.
File(rows, tail) == [ok |-> TRUE, rows |-> rows, text |-> FormatRows(rows) \o tail]

\* Map files: one row; two rows of one module; a row repeated with another
\* global id; two rows sharing a global id; a valid row followed by an invalid
\* character ("X"), or by a truncated row ("K,").
ImportFiles ==
    { File(<<RowOf("Class", <<109>>, <<108>>, <<97>>)>>, <<>>),
      File(<<RowOf("Class", <<109>>, <<108>>, <<97>>),
             RowOf("Class", <<109>>, <<107>>, <<98>>)>>, <<>>),
      File(<<RowOf("Class", <<109>>, <<108>>, <<97>>),
             RowOf("Class", <<109>>, <<108>>, <<98>>)>>, <<>>),
      File(<<RowOf("Class", <<109>>, <<107>>, <<99>>),
             RowOf("Class", <<110, 47, 120>>, <<108>>, <<99>>)>>, <<>>),
      File(<<RowOf("Keyframes", <<109>>, <<108>>, <<97>>)>>, <<88>>),
      File(<<RowOf("Var", <<109>>, <<107>>, <<97>>)>>, <<75, 44>>) }

\* The reader either fails (read_to_string returns an error) or gives a file.
IOFail == [ok |-> FALSE]

Readers == {IOFail} \cup ImportFiles

\* Inputs of the parser: up to MaxRows well-formed rows, the last one with or
\* without its newline.
ParserRows ==
    { RowOf(k, m, l, g) : k \in IdKinds, m \in ModuleNames,
                          l \in {<<108>>, <<107, 50>>}, g \in {<<97>>, <<98, 45>>} }

RECURSIVE RowLists(_)
RowLists(n) ==
    IF n = 0 THEN {<<>>}
    ELSE RowLists(n - 1) \cup {Append(rs, r) : rs \in RowLists(n - 1), r \in ParserRows}

ParserInputs ==
    {File(rs, <<>>) : rs \in RowLists(MaxRows)}
      \cup {[File(rs, <<>>) EXCEPT !.text = SubSeq(@, 1, Len(@) - 1)] :
               rs \in RowLists(MaxRows) \ {<<>>}}

-----------------------------------------------------------------------------
(* The state machine of one CssMap and its writer *)

TheMap ==
    [index |-> index, modules |-> modules, classes |-> classes, vars |-> vars,
     keyframes |-> keyframes, new_ids_buf |-> new_ids_buf]

SetMap(m) ==
    /\ index' = m.index
    /\ modules' = m.modules
    /\ classes' = m.classes
    /\ vars' = m.vars
    /\ keyframes' = m.keyframes
    /\ new_ids_buf' = m.new_ids_buf

IsMap(m) ==
    /\ index = m.index
    /\ modules = m.modules
    /\ classes = m.classes
    /\ vars = m.vars
    /\ keyframes = m.keyframes
    /\ new_ids_buf = m.new_ids_buf

Calls == hist.imports + hist.mints + hist.faults

ResultKind(result) == IF result.ok THEN "Ok" ELSE result.err.kind

Init ==
    /\ IsMap(CssMap_new({}, ExcludeVar, {}))
    /\ written = <<>>
    /\ ret = [op |-> "new"]
    /\ mintLog = <<>>
    /\ hist = [imports |-> 0, mints |-> 0, faults |-> 0, lateImport |-> FALSE]
    /\ parser = Parser_new(<<>>)
    /\ yielded = <<>>

ImportReturns(reader, r) ==
    /\ SetMap(r.map)
    /\ ret' = [op |-> "import", reader |-> reader, result |-> ResultKind(r.result)]

Import ==
    /\ Calls < MaxCalls
    /\ \E reader \in Readers : ImportReturns(reader, CssMap_import(TheMap, reader))
    /\ hist' = [hist EXCEPT !.imports = @ + 1, !.lateImport = @ \/ hist.mints > 0]
    /\ UNCHANGED <<written, mintLog, parser, yielded>>

GetModuleIndexReturns(r) ==
    /\ SetMap(r.map)
    /\ ret' = [op |-> "get_module_index", index |-> r.index]

GetModuleIndex ==
    /\ \E name \in ModuleNames : GetModuleIndexReturns(get_module_index(TheMap, name))
    /\ UNCHANGED <<written, mintLog, hist, parser, yielded>>

GetIdReturns(key, r) ==
    /\ r.minted => Calls < MaxCalls
    /\ SetMap(r.map)
    /\ ret' = [op |-> "get_id", minted |-> r.minted]
    /\ mintLog' = IF r.minted
                  THEN Append(mintLog, [kind |-> key[2],
                                        module_id |-> modules[key[1] + 1].id,
                                        local_id |-> key[3],
                                        global_id |-> r.id.global_id])
                  ELSE mintLog
    /\ hist' = [hist EXCEPT !.mints = IF r.minted THEN @ + 1 ELSE @]

GetId ==
    /\ \E key \in {k \in GetIdInputs : k[1] < Len(modules)} :
         GetIdReturns(key, CssMap_get_id(TheMap, key[1], key[2], key[3]))
    /\ UNCHANGED <<written, parser, yielded>>

FlushNewIdsReturns(r) ==
    /\ (~r.ok \/ Len(r.taken) < Len(new_ids_buf)) => Calls < MaxCalls
    /\ new_ids_buf' = r.new_ids_buf
    /\ written' = written \o r.taken
    /\ ret' = [op |-> "flush_new_ids", ok |-> r.ok]
    /\ mintLog' = IF r.ok THEN <<>> ELSE mintLog
    /\ hist' = [hist EXCEPT
                  !.faults = IF ~r.ok \/ Len(r.taken) < Len(new_ids_buf) THEN @ + 1 ELSE @]

FlushNewIds ==
    /\ \E w \in WriterOutcomes(Len(new_ids_buf)) :
         FlushNewIdsReturns(CssMap_flush_new_ids(new_ids_buf, w))
    /\ UNCHANGED <<mapVars, parser, yielded>>

Next == Import \/ GetModuleIndex \/ GetId \/ FlushNewIds

Spec == Init /\ [][Next]_allVars

-----------------------------------------------------------------------------
(* Vocabulary of the claims about the map *)

\* The Ids a map stores: the module id, the kind of the sub-map, the local id
\* (the key) and the Id record.
Entries(m) ==
    UNION { UNION { { [module_id |-> m.modules[i].id, kind |-> k, local_id |-> l,
                       id |-> m.modules[i][KindField(k)][l]] :
                         l \in DOMAIN m.modules[i][KindField(k)] } :
                    k \in IdKinds } :
            i \in 1..Len(m.modules) }

\* The global id get_id(module, kind, local) finds in m, or <<>> when the
\* module or the local is absent (get_id would then mint).
Lookup(m, module_id, kind, local_id) ==
    IF module_id \in DOMAIN m.index
       /\ local_id \in DOMAIN m.modules[m.index[module_id] + 1][KindField(kind)]
    THEN m.modules[m.index[module_id] + 1][KindField(kind)][local_id].global_id
    ELSE <<>>

\* The row `<C|V|K>,<module_id>,<local_id>,<global_id>\n` of a minted id.
RowText(e) ==
    <<(CASE e.kind = "Class" -> 67 [] e.kind = "Var" -> 86 [] e.kind = "Keyframes" -> 75),
      44>> \o e.module_id \o <<44>> \o e.local_id \o <<44>> \o e.global_id \o <<10>>

RECURSIVE RowsText(_)
RowsText(log) == IF log = <<>> THEN <<>> ELSE RowText(log[1]) \o RowsText(Tail(log))

MintStep == ret'.op = "get_id" /\ ret'.minted
LookupStep == ret'.op = "get_id" /\ ~ret'.minted
ImportStep == ret'.op = "import"
FlushStep == ret'.op = "flush_new_ids"

-----------------------------------------------------------------------------
(* The parser alone: next_id is called until it returns None or an error,  *)
(* as import's `while let ... = parser.next_id()?` does.                   *)

InitParser ==
    /\ IsMap(CssMap_new({}, ExcludeVar, {}))
    /\ written = <<>>
    /\ mintLog = <<>>
    /\ hist = [imports |-> 0, mints |-> 0, faults |-> 0, lateImport |-> FALSE]
    /\ yielded = <<>>
    /\ \E input \in ParserInputs :
         /\ parser = Parser_new(input.text)
         /\ ret = [op |-> "Parser::new", rows |-> input.rows, result |-> "Some"]

\* `line` is what parse_line returns at the iterator's position, n what next_id returns.
NextIdReturns(line, n) ==
    /\ parser' = n.parser
    /\ yielded' = IF n.res.ok /\ n.res.some
                  THEN Append(yielded, [row |-> n.res, line |-> line])
                  ELSE yielded
    /\ ret' = [ret EXCEPT !.op = "next_id",
                          !.result = IF ~n.res.ok THEN n.res.err.kind
                                     ELSE IF n.res.some THEN "Some" ELSE "None"]

NextId ==
    /\ ret.result = "Some"
    /\ NextIdReturns(parse_line(parser.s, parser.iter), Parser_next_id(parser))
    /\ UNCHANGED <<mapVars, new_ids_buf, written, mintLog, hist>>

NextParser == NextId

SpecParser == InitParser /\ [][NextParser]_allVars

-----------------------------------------------------------------------------
(* Claims about the parser, under SpecParser.  ret.rows are the rows the   *)
(* input was written from; yielded[n] is what the n-th call produced.      *)

\* C8: delta encoding.  next_id yields module_id = None on a row if and only
\* if the previous row's module_id field equals this row's, and the first row
\* yields Some(its module_id).
C8_DeltaEncoding ==
    \A n \in 1..Len(yielded) :
        /\ n = 1 => yielded[n].row.module_id = Some(ret.rows[1].module_id)
        /\ n > 1 => (yielded[n].row.module_id = None
                        <=> ret.rows[n - 1].module_id = ret.rows[n].module_id)

\* C9: the n-th row parsed from the shared iterator yields exactly the four
\* fields of line n, for every n.
C9_RowFields ==
    \A n \in 1..Len(yielded) :
        /\ yielded[n].line.kind = ret.rows[n].kind
        /\ yielded[n].line.module_id = ret.rows[n].module_id
        /\ yielded[n].line.local_id = ret.rows[n].local_id
        /\ yielded[n].line.global_id = ret.rows[n].global_id

-----------------------------------------------------------------------------
(* Claims about the map, under Spec *)

\* The map a fresh process builds by importing the bytes the writer holds.
Reimported ==
    CssMap_import(CssMap_new({}, ExcludeVar, {}), [ok |-> TRUE, text |-> written])

\* get_id for the entry e of the original map, asked of the reimported map.
ReimportedGetId(e, gi) == CssMap_get_id(gi.map, gi.index, e.kind, e.local_id)

SameIdAfterReimport(e, r) ==
    /\ ~r.minted
    /\ r.map.new_ids_buf = <<>>
    /\ r.map.modules[r.id.module_index + 1].id = e.module_id
    /\ r.id.kind = e.id.kind
    /\ r.id.local_id = e.id.local_id
    /\ r.id.global_id = e.id.global_id

\* C1: map round trip.  For a map built by get_module_index and get_id calls
\* whose rows have all been flushed, importing the written rows into a fresh map
\* gives a map in which get_id returns the same module, kind, local_id and
\* global_id for every entry of the original, and appends no row.
C1_RoundTrip ==
    (hist.imports = 0 /\ hist.faults = 0 /\ new_ids_buf = <<>>) =>
        /\ Reimported.result.ok
        /\ \A e \in Entries(TheMap) :
               SameIdAfterReimport(e,
                   ReimportedGetId(e, get_module_index(Reimported.map, e.module_id)))

\* C2: invariant I2.  No two Ids of one kind stored in the map, in the same
\* module or in different modules, have the same global_id.
C2_GlobalIdsUnique ==
    \A e1, e2 \in Entries(TheMap) :
        (e1.kind = e2.kind /\ e1.id.global_id = e2.id.global_id) => e1 = e2

\* C3: freshness after import.  While all imports precede all mints, a minted
\* global_id differs from every global_id of its kind already in the map, and
\* after an import that returned Ok every imported row's local still has the
\* row's global_id under the row's module.
C3_FreshAndKept ==
    [][ /\ (MintStep /\ ~hist.lateImport) =>
              \A e \in Entries(TheMap)' \ Entries(TheMap) :
                  \A o \in Entries(TheMap) :
                      o.kind = e.kind => o.id.global_id # e.id.global_id
        /\ (ImportStep /\ ret'.result = "Ok" /\ hist.mints = 0) =>
              \A n \in 1..Len(ret'.reader.rows) :
                  Lookup(TheMap', ret'.reader.rows[n].module_id,
                         ret'.reader.rows[n].kind, ret'.reader.rows[n].local_id)
                      = ret'.reader.rows[n].global_id ]_allVars

\* C4: invariant I5.  The pending buffer is exactly the rows, in mint order, of
\* the ids minted since the last flush that returned Ok.
C4_PendingRows == new_ids_buf = RowsText(mintLog)

C4_Witness ==
    /\ hist.imports > 0
    /\ written # <<>>
    /\ Len(mintLog) >= 1
    /\ ret.op = "get_id" /\ ~ret.minted

\* C5: flush_new_ids is atomic.  Either it returns Ok, every byte of the
\* pending buffer was taken by the writer and the buffer is empty, or it
\* returns an error and the buffer is unchanged.
C5_FlushAtomic ==
    [][ FlushStep =>
          IF ret'.ok
          THEN written' = written \o new_ids_buf /\ new_ids_buf' = <<>>
          ELSE new_ids_buf' = new_ids_buf ]_allVars

\* C6: when import returns an error the map is unchanged.
C6_FailedImportUnchanged ==
    [][ (ImportStep /\ ret'.result # "Ok") => UNCHANGED mapVars ]_allVars

\* A row of a file whose (module, kind, local) is in the map before the import
\* or in an earlier row of the file.
HasDuplicateRow(m, rows) ==
    \E n \in 1..Len(rows) :
        \/ Lookup(m, rows[n].module_id, rows[n].kind, rows[n].local_id) # <<>>
        \/ \E k \in 1..(n - 1) :
               /\ rows[k].module_id = rows[n].module_id
               /\ rows[k].kind = rows[n].kind
               /\ rows[k].local_id = rows[n].local_id

\* C7: the import of a well-formed file fails with DuplicateEntry exactly when
\* one of its rows has a (module, kind, local) already present.
C7_DuplicateEntry ==
    [][ (ImportStep /\ ret'.reader.ok /\ ret'.reader.text = FormatRows(ret'.reader.rows)) =>
          (ret'.result = "DuplicateEntry" <=> HasDuplicateRow(TheMap, ret'.reader.rows))
      ]_allVars

\* C10: get_id is lookup-or-mint and idempotent.  A get_id for a stored local
\* returns the stored Id and changes nothing; stored Ids are never changed or
\* removed; a mint inserts one Id and appends one row.
C10_Idempotent ==
    /\ [](\A key \in {k \in GetIdInputs : k[1] < Len(modules)} :
             key[3] \in DOMAIN modules[key[1] + 1][KindField(key[2])] =>
                 /\ CssMap_get_id(TheMap, key[1], key[2], key[3]).map = TheMap
                 /\ CssMap_get_id(TheMap, key[1], key[2], key[3]).id
                        = modules[key[1] + 1][KindField(key[2])][key[3]])
    /\ [][ /\ Entries(TheMap) \subseteq Entries(TheMap)'
           /\ LookupStep => UNCHANGED <<mapVars, new_ids_buf>>
           /\ MintStep =>
                /\ Cardinality(Entries(TheMap)') = Cardinality(Entries(TheMap)) + 1
                /\ \E e \in Entries(TheMap)' \ Entries(TheMap) :
                       /\ [kind |-> e.kind, module_id |-> e.module_id,
                           local_id |-> e.local_id, global_id |-> e.id.global_id]
                              = mintLog'[Len(mintLog')]
                       /\ new_ids_buf' = new_ids_buf \o RowText(mintLog'[Len(mintLog')])
         ]_allVars

C10_Witness ==
    /\ ret.op = "get_id" /\ ~ret.minted
    /\ hist.mints >= 2
    /\ written # <<>>


-----------------------------------------------------------------------------
(* The module table *)

GetModuleIndexStep == ret'.op = "get_module_index"

\* C11: invariant I1.  Each module's index is its position in the module table,
\* the module-id index maps each module id to that position, the table only
\* grows by appending, and get_module_index returns the same index for the same
\* name on every call, creating the module only when the name is absent.
C11_ModuleIndexStable ==
    /\ [](/\ \A i \in 1..Len(modules) :
               /\ modules[i].index = i - 1
               /\ modules[i].id \in DOMAIN index
               /\ index[modules[i].id] = i - 1
          /\ Cardinality(DOMAIN index) = Len(modules)
          /\ \A name \in ModuleNames :
               IF name \in DOMAIN index
               THEN /\ get_module_index(TheMap, name).map = TheMap
                    /\ get_module_index(TheMap, name).index = index[name]
               ELSE /\ get_module_index(TheMap, name).index = Len(modules)
                    /\ Len(get_module_index(TheMap, name).map.modules) = Len(modules) + 1)
    /\ [][ /\ Len(modules') >= Len(modules)
           /\ \A i \in 1..Len(modules) :
                /\ modules'[i].id = modules[i].id
                /\ modules'[i].index = modules[i].index
                /\ index'[modules[i].id] = index[modules[i].id]
           /\ GetModuleIndexStep =>
                /\ Len(modules') <= Len(modules) + 1
                /\ modules'[ret'.index + 1].id \in ModuleNames
                /\ Len(modules') = Len(modules) + 1 => ret'.index = Len(modules)
         ]_allVars

\* get_module_index has returned the index of a module an import created
\* while another module exists.
C11_Witness ==
    /\ ret.op = "get_module_index"
    /\ hist.imports > 0
    /\ Len(modules) >= 2
    /\ ret.index < Len(modules) - 1

-----------------------------------------------------------------------------
(* The identifier generator alone: index_to_css_identifier applied to a    *)
(* pair of indices, as IdSet::next_id applies it to its counter.           *)

\* The number of words of [a-zA-Z][a-zA-Z0-9_-]* of length 1..k.
RECURSIVE WordsUpTo(_)
WordsUpTo(k) == IF k = 0 THEN 0 ELSE 52 + 64 * WordsUpTo(k - 1)

\* The indices explored: 0..MaxIndex, and Window indices on each side of the
\* first index of every word length up to the first that does not fit the
\* buffer.
GenIndices ==
    (0..MaxIndex) \cup
    UNION { (WordsUpTo(k - 1) - Window)..(WordsUpTo(k - 1) + Window - 1) : k \in 2..(BufLen + 1) }

InitGen ==
    /\ IsMap(CssMap_new({}, ExcludeVar, {}))
    /\ written = <<>>
    /\ mintLog = <<>>
    /\ hist = [imports |-> 0, mints |-> 0, faults |-> 0, lateImport |-> FALSE]
    /\ parser = Parser_new(<<>>)
    /\ yielded = <<>>
    /\ \E i, j \in GenIndices :
         /\ i <= j
         /\ ret = [op |-> "index", i |-> i, j |-> j]

IndexToCssIdentifierReturns(id_i, id_j) ==
    ret' = [op |-> "index_to_css_identifier", i |-> ret.i, j |-> ret.j,
            id_i |-> id_i, id_j |-> id_j]

IndexToCssIdentifier ==
    /\ ret.op = "index"
    /\ IndexToCssIdentifierReturns(index_to_css_identifier(ret.i),
                                   index_to_css_identifier(ret.j))
    /\ UNCHANGED <<mapVars, new_ids_buf, written, mintLog, hist, parser, yielded>>

NextGen == IndexToCssIdentifier

SpecGen == InitGen /\ [][NextGen]_allVars

Generated == ret.op = "index_to_css_identifier"

\* The 64 characters of V in order, a..z A..Z 0..9 _ -, and its 52 letters.
RefV ==
    [n \in 1..26 |-> 96 + n] \o [n \in 1..26 |-> 64 + n]
        \o [n \in 1..10 |-> 47 + n] \o <<95, 45>>

RefLetters == (97..122) \cup (65..90)

RefChars == RefLetters \cup (48..57) \cup {95, 45}

\* C12: every identifier the generator returns is a word of
\* [a-zA-Z][a-zA-Z0-9_-]*: its first character is one of the 52 letters and
\* every later character is one of the 64 characters of V.
C12_InLanguage ==
    (Generated /\ ret.id_i # Panic) =>
        /\ Len(ret.id_i) >= 1
        /\ ret.id_i[1] \in RefLetters
        /\ \A n \in 2..Len(ret.id_i) : ret.id_i[n] \in RefChars

\* An identifier of three characters has been generated.
C12_Witness == Generated /\ ret.id_i # Panic /\ Len(ret.id_i) = 3

\* C13: the generator is injective: the identifiers returned for two different
\* indices differ, also across the boundaries between word lengths.
C13_Injective ==
    (Generated /\ ret.i # ret.j /\ ret.id_i # Panic /\ ret.id_j # Panic) =>
        ret.id_i # ret.id_j

\* The last index of the two-character words and the first of the
\* three-character words have been generated together.
C13_Witness ==
    /\ Generated
    /\ ret.i = WordsUpTo(2) - 1 /\ ret.j = WordsUpTo(2)
    /\ Len(ret.id_i) = 2 /\ Len(ret.id_j) = 3

\* The smallest k such that the count of words of length <= k exceeds i.
RECURSIVE RefLength(_, _)
RefLength(i, k) == IF WordsUpTo(k) > i THEN k ELSE RefLength(i, k + 1)

RECURSIVE Pow64(_)
Pow64(n) == IF n = 0 THEN 1 ELSE 64 * Pow64(n - 1)

\* The residue r written with k digits in mixed radix (52, 64, 64, ...) over V.
RefDigits(r, k) == [n \in 1..k |-> RefV[((r \div Pow64(k - n)) % 64) + 1]]

RefEncoding(i) == RefDigits(i - WordsUpTo(RefLength(i, 1) - 1), RefLength(i, 1))

\* C14: for every index i, with no upper bound on the word length, the
\* generator is defined and returns the reference encoding of i.
C14_ReferenceEncoding ==
    Generated => ret.id_i = RefEncoding(ret.i)

-----------------------------------------------------------------------------
(* next_id, under Spec *)

\* The IdSet of a kind in the map before and after a step.
IdSetOf(kind) == TheMap[KindField(kind)]
IdSetAfter(kind) == TheMap'[KindField(kind)]

\* The candidate of index n is rejected by the IdSet s.
Rejected(s, n) ==
    \/ \E p \in s.exclude : SubSeq(index_to_css_identifier(n), 1, Len(p)) = p
    \/ index_to_css_identifier(n) \in s.set

\* C15: next_id never returns an identifier matched by an exclude pattern or
\* present in the seen set; the identifier returned is the candidate of the last
\* index drawn and every index drawn before it was rejected; the counter never
\* decreases, and add and import do not change it.
C15_NextIdExcludes ==
    [][ /\ \A kind \in IdKinds : IdSetAfter(kind).index >= IdSetOf(kind).index
        /\ ~MintStep => \A kind \in IdKinds : IdSetAfter(kind).index = IdSetOf(kind).index
        /\ MintStep =>
             /\ IdSetAfter(mintLog'[Len(mintLog')].kind).index
                    > IdSetOf(mintLog'[Len(mintLog')].kind).index
             /\ mintLog'[Len(mintLog')].global_id
                    = index_to_css_identifier(IdSetAfter(mintLog'[Len(mintLog')].kind).index - 1)
             /\ ~Rejected(IdSetOf(mintLog'[Len(mintLog')].kind),
                          IdSetAfter(mintLog'[Len(mintLog')].kind).index - 1)
             /\ \A n \in IdSetOf(mintLog'[Len(mintLog')].kind).index
                           ..(IdSetAfter(mintLog'[Len(mintLog')].kind).index - 2) :
                    Rejected(IdSetOf(mintLog'[Len(mintLog')].kind), n)
      ]_allVars

\* A var was minted after an import added "a" to the seen set: the candidates
\* "a" (seen) and "b" (excluded) were skipped and "c" returned.
C15_Witness ==
    /\ ret.op = "get_id" /\ ret.minted
    /\ hist.imports > 0
    /\ mintLog[Len(mintLog)].kind = "Var"
    /\ mintLog[Len(mintLog)].global_id = <<99>>
    /\ vars.index = 3
    /\ <<97>> \in vars.set

-----------------------------------------------------------------------------
(* The three kinds *)

\* The kinds of the rows a step's import read, or the kind its get_id minted.
KindsTouched ==
    IF MintStep THEN {mintLog'[Len(mintLog')].kind}
    ELSE IF ImportStep /\ ret'.reader.ok
    THEN {ret'.reader.rows[n].kind : n \in 1..Len(ret'.reader.rows)}
    ELSE {}

\* C16: the kinds are independent namespaces.  A get_id or an import for one
\* kind leaves the sub-maps, the seen set and the counter of the other kinds
\* unchanged, and on an IdSet that has seen nothing the first minted id of each
\* kind is "a".
C16_KindsIndependent ==
    [][ /\ \A kind \in IdKinds \ KindsTouched :
             /\ IdSetAfter(kind) = IdSetOf(kind)
             /\ \A i \in 1..Len(modules) :
                    modules'[i][KindField(kind)] = modules[i][KindField(kind)]
             /\ \A i \in (Len(modules) + 1)..Len(modules') :
                    DOMAIN modules'[i][KindField(kind)] = {}
        /\ (MintStep /\ IdSetOf(mintLog'[Len(mintLog')].kind).index = 0
                     /\ IdSetOf(mintLog'[Len(mintLog')].kind).set = {}) =>
             mintLog'[Len(mintLog')].global_id = <<97>>
      ]_allVars

\* One module holds the local "l" as a class, a var and a keyframes, each with
\* the global id "a".
C16_Witness ==
    /\ Len(modules) >= 1
    /\ \A kind \in IdKinds :
         /\ <<108>> \in DOMAIN modules[1][KindField(kind)]
         /\ modules[1][KindField(kind)][<<108>>].global_id = <<97>>

-----------------------------------------------------------------------------
(* class_map.rs.  A ClassMap is [name, static_classes, states,             *)
(* exclude_constraints]; class strings are strings, state masks naturals.  *)

RECURSIVE BitAnd(_, _)
BitAnd(a, b) ==
    IF a = 0 \/ b = 0 THEN 0
    ELSE 2 * BitAnd(a \div 2, b \div 2) + (IF a % 2 = 1 /\ b % 2 = 1 THEN 1 ELSE 0)

RECURSIVE BitOr(_, _)
BitOr(a, b) ==
    IF a = 0 THEN b
    ELSE IF b = 0 THEN a
    ELSE 2 * BitOr(a \div 2, b \div 2) + (IF a % 2 = 1 \/ b % 2 = 1 THEN 1 ELSE 0)

\* 1 << i
Shl1(i) == 2 ^ i

ClassMapState_new(name, class_names) == [name |-> name, classes |-> class_names]

ClassMap_new(name, static_classes, states, exclude_constraints) ==
    [name |-> name, static_classes |-> static_classes, states |-> states,
     exclude_constraints |-> exclude_constraints]

\* A join that drops an empty b.
join_strings_trims(a, b) == IF a = "" THEN b ELSE IF b = "" THEN a ELSE a \o " " \o b

\* A join that writes the separator after an empty a too.
join_strings_always_separates(a, b) == a \o " " \o b

\* A join that writes no separator.
join_strings_no_separator(a, b) == a \o b

\* Joins strings a and b with ' ' separator.
join_strings(a, b) == IF a = "" THEN b ELSE a \o " " \o b

\* A mask that is satisfied whatever the exclude constraints are.
is_constraints_satisfied_always(cm, idx) == TRUE

\* Checks index bitmask in excluded constraints.
is_constraints_satisfied(cm, idx) ==
    \A n \in 1..Len(cm.exclude_constraints) :
        BitAnd(idx, cm.exclude_constraints[n]) # cm.exclude_constraints[n]

create_empty_table(cm) == [n \in 1..(2 ^ Len(cm.states)) |-> ""]

\* The table after the call; entry M of the table is result[M + 1].
RECURSIVE populate_table(_, _, _, _, _)
populate_table(cm, result, i, prev_state, prev_state_mask) ==
    IF ~is_constraints_satisfied(cm, prev_state_mask)
    THEN result
    ELSE IF i = Len(cm.states)
    THEN [result EXCEPT ![prev_state_mask + 1] = prev_state]
    ELSE populate_table(cm,
             populate_table(cm, result, i + 1, prev_state, prev_state_mask),
             i + 1,
             join_strings(prev_state, cm.states[i + 1].classes),
             BitOr(prev_state_mask, Shl1(i)))

\* The pieces written to the output, one per literal or argument of each write!.
RECURSIVE write_inline_cond_expr(_, _, _, _)
write_inline_cond_expr(cm, i, prev_state, prev_state_mask) ==
    IF i >= Len(cm.states)
    THEN <<"\"", prev_state, "\"">>
    ELSE IF is_constraints_satisfied(cm, BitOr(prev_state_mask, Shl1(i)))
    THEN <<"(", cm.states[i + 1].name, " ? ">>
           \o write_inline_cond_expr(cm, i + 1,
                  join_strings(prev_state, cm.states[i + 1].classes),
                  BitOr(prev_state_mask, Shl1(i)))
           \o <<" : ">>
           \o write_inline_cond_expr(cm, i + 1, prev_state, prev_state_mask)
           \o <<")">>
    ELSE write_inline_cond_expr(cm, i + 1, prev_state, prev_state_mask)

\* The parameter list of the emitted function.
ParamNames(cm) == [n \in 1..Len(cm.states) |-> cm.states[n].name]

\* Index terms whose bits are in the reverse order of the states.
IndexTerms_reversed(cm) ==
    [n \in 1..Len(cm.states) |->
        [name |-> cm.states[n].name, bit |-> Shl1(Len(cm.states) - n)]]

\* The terms `(name ? 1 << i : 0)` of the index expression of the table function.
IndexTerms(cm) ==
    [n \in 1..Len(cm.states) |-> [name |-> cm.states[n].name, bit |-> Shl1(n - 1)]]

ClassMapOutputs == {"Inline", "Table"}

\* The parts of the text emit_js writes: the table entries and the index terms
\* in table mode, the conditional expression in inline mode.
emit_js(cm, kind) ==
    IF kind = "Table"
    THEN [kind |-> "Table",
          table |-> populate_table(cm, create_empty_table(cm), 0, cm.static_classes, 0),
          params |-> ParamNames(cm),
          index |-> IndexTerms(cm)]
    ELSE [kind |-> "Inline",
          params |-> ParamNames(cm),
          expr |-> write_inline_cond_expr(cm, 0, cm.static_classes, 0)]

-----------------------------------------------------------------------------
(* compiler.rs: parse_at_class_map.  The block of an @classmap rule is the *)
(* sequence of its declarations: [rule |-> "static", idents],              *)
(* [rule |-> "state", name, idents] and [rule |-> "exclude", idents].      *)

\* scope.get_id(IdKind::Class, c).global_id for the class names of the blocks
\* explored: the names are minted in a fixed order.
ScopeGlobalId(c) ==
    CASE c = "base" -> "S"
      [] c = "active" -> "A"
      [] c = "inactive" -> "B"
      [] c = "extra" -> "C"
      [] c = "more" -> "D"

RECURSIVE join_words(_)
join_words(words) ==
    IF words = <<>> THEN ""
    ELSE IF Len(words) = 1 THEN words[1]
    ELSE words[1] \o " " \o join_words(Tail(words))

ResolveClasses(idents) == [n \in 1..Len(idents) |-> ScopeGlobalId(idents[n])]

\* todo!("Invalid rule") panics.
Todo == [ok |-> FALSE, panic |-> "Invalid rule"]

\* Lines 493-500: the mask of an @exclude rule, or the panic of line 498.
RECURSIVE ExcludeMask(_, _, _)
ExcludeMask(idents, states_map_index, exclude_mask) ==
    IF idents = <<>> THEN [ok |-> TRUE, mask |-> exclude_mask]
    ELSE IF idents[1] \in DOMAIN states_map_index
    THEN ExcludeMask(Tail(idents), states_map_index,
                     BitOr(exclude_mask, Shl1(states_map_index[idents[1]])))
    ELSE Todo

\* The locals of parse_at_class_map before the first declaration.
ParseStart ==
    [ok |-> TRUE, state_index |-> 0, states |-> <<>>, states_map_index |-> EmptyMap,
     static_classes |-> <<>>, exclude_constraints |-> <<>>]

ParseExclude(acc, m) ==
    IF m.ok
    THEN [acc EXCEPT !.exclude_constraints = Append(@, m.mask)]
    ELSE m

\* One iteration of the loop of lines 482-544 on a declaration.
ParseDeclaration(acc, decl) ==
    CASE decl.rule = "static" ->
           [acc EXCEPT !.static_classes = decl.idents]
      [] decl.rule = "exclude" ->
           ParseExclude(acc, ExcludeMask(decl.idents, acc.states_map_index, 0))
      [] decl.rule = "state" ->
           [acc EXCEPT
              !.states_map_index = MapInsert(@, decl.name, acc.state_index),
              !.states = Append(@, ClassMapState_new(decl.name,
                                       join_words(ResolveClasses(decl.idents)))),
              !.state_index = @ + 1]

RECURSIVE ParseBlock(_, _)
ParseBlock(acc, block) ==
    IF ~acc.ok \/ block = <<>> THEN acc
    ELSE ParseBlock(ParseDeclaration(acc, block[1]), Tail(block))

ParseEnd(name, acc) ==
    IF acc.ok
    THEN [ok |-> TRUE,
          class_map |-> ClassMap_new(name, join_words(ResolveClasses(acc.static_classes)),
                                     acc.states, acc.exclude_constraints)]
    ELSE acc

\* The ClassMap of a rule `@classmap name { block }`, or the panic.
parse_at_class_map(name, block) == ParseEnd(name, ParseBlock(ParseStart, block))

-----------------------------------------------------------------------------
(* The class maps explored *)

StateDecls ==
    <<[rule |-> "state", name |-> "a", idents |-> <<"active">>],
      [rule |-> "state", name |-> "b", idents |-> <<"inactive">>],
      [rule |-> "state", name |-> "c", idents |-> <<"extra">>],
      [rule |-> "state", name |-> "d", idents |-> <<"more">>],
      [rule |-> "state", name |-> "e", idents |-> <<"base">>]>>

StaticDecls == {<<>>, <<[rule |-> "static", idents |-> <<"base">>]>>}

\* The names of the states of mask m, in declaration order.
RECURSIVE IdentsOfMask(_, _)
IdentsOfMask(m, n) ==
    IF m = 0 THEN <<>>
    ELSE IF m % 2 = 1 THEN <<StateDecls[n].name>> \o IdentsOfMask(m \div 2, n + 1)
    ELSE IdentsOfMask(m \div 2, n + 1)

ExcludeDecl(m) == [rule |-> "exclude", idents |-> IdentsOfMask(m, 1)]

\* The increasing lists of at most len masks of nonempty sets of n states.
RECURSIVE MaskLists(_, _)
MaskLists(n, len) ==
    IF len = 0 THEN {<<>>}
    ELSE MaskLists(n, len - 1) \cup
         UNION { { Append(l, m) : m \in (IF l = <<>> THEN 1 ELSE l[Len(l)] + 1)..(2 ^ n - 1) } :
                 l \in {x \in MaskLists(n, len - 1) : Len(x) = len - 1} }

\* The @exclude rules of a list of masks.
ExcludeDecls(masks) == [k \in 1..Len(masks) |-> ExcludeDecl(masks[k])]

\* Scenario 4: `@static base; on: active; off: inactive; @exclude on and off;`
Scenario4 ==
    <<[rule |-> "static", idents |-> <<"base">>],
      [rule |-> "state", name |-> "on", idents |-> <<"active">>],
      [rule |-> "state", name |-> "off", idents |-> <<"inactive">>],
      [rule |-> "exclude", idents |-> <<"on", "and", "off">>]>>

\* An @exclude rule written before the states it names.
ExcludeFirst ==
    <<[rule |-> "exclude", idents |-> <<"a", "b">>],
      [rule |-> "state", name |-> "a", idents |-> <<"active">>],
      [rule |-> "state", name |-> "b", idents |-> <<"inactive">>]>>

\* A block: an optional @static rule, n states, at most MaxExcludes @exclude rules.
Blocks ==
    UNION { { s \o SubSeq(StateDecls, 1, n) \o ExcludeDecls(x) :
                s \in StaticDecls, x \in MaskLists(n, MaxExcludes) } :
            n \in 2..MaxStates }
      \cup {Scenario4, ExcludeFirst}

\* The value of the parameter `name` in a call whose true arguments are the
\* bits of mask.
ParamIsTrue(params, mask, name) ==
    \E n \in 1..Len(params) : params[n] = name /\ BitAnd(mask, Shl1(n - 1)) # 0

\* The index expression `(a ? 1 : 0) | (b ? 2 : 0) | ...` of the table function.
RECURSIVE TableIndex(_, _, _, _)
TableIndex(terms, n, params, mask) ==
    IF n > Len(terms) THEN 0
    ELSE BitOr(IF ParamIsTrue(params, mask, terms[n].name) THEN terms[n].bit ELSE 0,
               TableIndex(terms, n + 1, params, mask))

\* The value of the conditional expression written at position pos, and the
\* position after it.
RECURSIVE EvalCond(_, _, _, _)
RECURSIVE EvalCondElse(_, _, _, _, _)

EvalCondEnd(params, mask, name, r1, r2) ==
    [value |-> IF ParamIsTrue(params, mask, name) THEN r1.value ELSE r2.value,
     pos |-> r2.pos + 1]

EvalCondElse(expr, params, mask, name, r1) ==
    EvalCondEnd(params, mask, name, r1, EvalCond(expr, r1.pos + 1, params, mask))

EvalCond(expr, pos, params, mask) ==
    IF expr[pos] = "\""
    THEN [value |-> expr[pos + 1], pos |-> pos + 3]
    ELSE EvalCondElse(expr, params, mask, expr[pos + 1],
                      EvalCond(expr, pos + 3, params, mask))

\* What the emitted function returns for the arguments of mask.
CallClassMap(out, mask) ==
    IF out.kind = "Table"
    THEN out.table[TableIndex(out.index, 1, out.params, mask) + 1]
    ELSE EvalCond(out.expr, 1, out.params, mask).value

-----------------------------------------------------------------------------
(* The class map pipeline: an @classmap rule is parsed, its function is    *)
(* emitted in one of the two modes, and the function is called.            *)

InitClassMap ==
    /\ IsMap(CssMap_new({}, ExcludeVar, {}))
    /\ written = <<>>
    /\ mintLog = <<>>
    /\ hist = [imports |-> 0, mints |-> 0, faults |-> 0, lateImport |-> FALSE]
    /\ parser = Parser_new(<<>>)
    /\ yielded = <<>>
    /\ \E block \in Blocks, kind \in ClassMapOutputs :
         ret = [op |-> "classmap", block |-> block, kind |-> kind]

ParseAtClassMapReturns(r) ==
    ret' = [op |-> "parse_at_class_map", block |-> ret.block, kind |-> ret.kind,
            result |-> r]

ParseAtClassMap ==
    /\ ret.op = "classmap"
    /\ ParseAtClassMapReturns(parse_at_class_map("CN", ret.block))
    /\ UNCHANGED <<mapVars, new_ids_buf, written, mintLog, hist, parser, yielded>>

EmitJsReturns(out) ==
    ret' = [op |-> "emit_js", block |-> ret.block, kind |-> ret.kind,
            class_map |-> ret.result.class_map, output |-> out]

EmitJs ==
    /\ ret.op = "parse_at_class_map"
    /\ ret.result.ok
    /\ EmitJsReturns(emit_js(ret.result.class_map, ret.kind))
    /\ UNCHANGED <<mapVars, new_ids_buf, written, mintLog, hist, parser, yielded>>

CallReturns(mask, value) ==
    ret' = [op |-> "call", block |-> ret.block, kind |-> ret.kind,
            class_map |-> ret.class_map, output |-> ret.output,
            args |-> mask, value |-> value]

Call ==
    /\ ret.op = "emit_js"
    /\ \E mask \in 0..(2 ^ Len(ret.class_map.states) - 1) :
         CallReturns(mask, CallClassMap(ret.output, mask))
    /\ UNCHANGED <<mapVars, new_ids_buf, written, mintLog, hist, parser, yielded>>

NextClassMap == ParseAtClassMap \/ EmitJs \/ Call

SpecClassMap == InitClassMap /\ [][NextClassMap]_allVars

-----------------------------------------------------------------------------
(* Claims about the class map, under SpecClassMap *)

Emitted == ret.op \in {"emit_js", "call"}

\* The state indices of a mask.
Bits(m) == {i \in 0..(MaxStates + 1) : (m \div (2 ^ i)) % 2 = 1}

\* A mask M is unsatisfied iff it contains every state of some exclude E.
Unsatisfied(cm, m) ==
    \E n \in 1..Len(cm.exclude_constraints) : Bits(cm.exclude_constraints[n]) \subseteq Bits(m)

\* The words of seq joined by single spaces.
RECURSIVE JoinSpaces(_)
JoinSpaces(seq) ==
    IF seq = <<>> THEN ""
    ELSE IF Len(seq) = 1 THEN seq[1]
    ELSE seq[1] \o " " \o JoinSpaces(Tail(seq))

\* The classes of the states of index >= i in the set, in increasing index.
RECURSIVE ClassesOf(_, _, _)
ClassesOf(cm, set, i) ==
    IF i >= Len(cm.states) THEN <<>>
    ELSE (IF i \in set THEN <<cm.states[i + 1].classes>> ELSE <<>>)
             \o ClassesOf(cm, set, i + 1)

\* STATIC followed by the classes of each state of the set, joined by spaces.
StringOf(cm, set) ==
    JoinSpaces((IF cm.static_classes = "" THEN <<>> ELSE <<cm.static_classes>>)
                  \o ClassesOf(cm, set, 0))

\* C17: table mode.  The table has 2^N entries; the entry at index M is the
\* empty string when M is unsatisfied, and otherwise STATIC followed by the
\* classes of each state of M in increasing state index, joined by single
\* spaces; states a, b, c with excludes 0b011 and 0b101 give
\* ["", "A", "B", "", "C", "", "B C", ""].
C17_Table ==
    (Emitted /\ ret.kind = "Table") =>
        /\ Len(ret.output.table) = 2 ^ Len(ret.class_map.states)
        /\ \A m \in 0..(2 ^ Len(ret.class_map.states) - 1) :
               ret.output.table[m + 1] =
                   IF Unsatisfied(ret.class_map, m) THEN ""
                   ELSE StringOf(ret.class_map, Bits(m))
        /\ (ret.block = SubSeq(StateDecls, 1, 3) \o ExcludeDecls(<<3, 5>>)) =>
               ret.output.table = <<"", "A", "B", "", "C", "", "B C", "">>

\* The table of states a, b, c with excludes 0b011 and 0b101 has been emitted.
C17_Witness ==
    /\ ret.op = "emit_js" /\ ret.kind = "Table"
    /\ ret.block = SubSeq(StateDecls, 1, 3) \o ExcludeDecls(<<3, 5>>)
    /\ ret.class_map.exclude_constraints = <<3, 5>>

\* The text of the pieces written.
RECURSIVE Text(_)
Text(pieces) == IF pieces = <<>> THEN "" ELSE pieces[1] \o Text(Tail(pieces))

\* The states j >= i whose addition to the mask is satisfied.
Addable(cm, i, mask) ==
    {j \in i..(Len(cm.states) - 1) : ~Unsatisfied(cm, BitOr(mask, 2 ^ j))}

Smallest(set) == CHOOSE j \in set : \A k \in set : j <= k

\* gen(i, prefix, mask) of the claim.
RECURSIVE Gen(_, _, _, _)
GenAt(cm, j, prefix, mask) ==
    "(" \o cm.states[j + 1].name \o " ? "
        \o Gen(cm, j + 1, JoinSpaces((IF prefix = "" THEN <<>> ELSE <<prefix>>)
                                        \o <<cm.states[j + 1].classes>>),
               BitOr(mask, 2 ^ j))
        \o " : " \o Gen(cm, j + 1, prefix, mask) \o ")"

Gen(cm, i, prefix, mask) ==
    IF Addable(cm, i, mask) = {}
    THEN "\"" \o prefix \o "\""
    ELSE GenAt(cm, Smallest(Addable(cm, i, mask)), prefix, mask)

\* The parentheses open after the first pos pieces.
Opened(pieces, pos) ==
    Cardinality({k \in 1..pos : pieces[k] = "("})
        - Cardinality({k \in 1..pos : pieces[k] = ")"})

\* C18: inline mode emits exactly gen(0, STATIC, 0): the quoted prefix if no
\* state j >= i can be added to the mask, and otherwise, for the smallest such
\* j, `(state_j ? gen(j+1, prefix joined with classes_j, mask|(1<<j)) :
\* gen(j+1, prefix, mask))`.  The nesting depth is at most N; two states a, b
\* with classes A, B give `(a ? (b ? "A B" : "A") : (b ? "B" : ""))` without
\* excludes and `(a ? "A" : (b ? "B" : ""))` with the exclude 0b11.
C18_Inline ==
    (Emitted /\ ret.kind = "Inline") =>
        /\ Text(ret.output.expr) = Gen(ret.class_map, 0, ret.class_map.static_classes, 0)
        /\ \A pos \in 1..Len(ret.output.expr) :
               Opened(ret.output.expr, pos) <= Len(ret.class_map.states)
        /\ (ret.block = SubSeq(StateDecls, 1, 2)) =>
               Text(ret.output.expr) = "(a ? (b ? \"A B\" : \"A\") : (b ? \"B\" : \"\"))"
        /\ (ret.block = SubSeq(StateDecls, 1, 2) \o ExcludeDecls(<<3>>)) =>
               Text(ret.output.expr) = "(a ? \"A\" : (b ? \"B\" : \"\"))"

\* The expression of states a, b with the exclude 0b11 has been emitted.
C18_Witness ==
    /\ ret.op = "emit_js" /\ ret.kind = "Inline"
    /\ ret.block = SubSeq(StateDecls, 1, 2) \o ExcludeDecls(<<3>>)
    /\ ret.class_map.exclude_constraints = <<3>>

\* C19: for every assignment of the parameters, also one whose mask is
\* forbidden by an @exclude, the emitted function returns STATIC plus the
\* classes of some permitted subset of the active states.
C19_PermittedSubset ==
    ret.op = "call" =>
        \E set \in SUBSET Bits(ret.args) :
            /\ ~\E n \in 1..Len(ret.class_map.exclude_constraints) :
                   Bits(ret.class_map.exclude_constraints[n]) \subseteq set
            /\ ret.value = StringOf(ret.class_map, set)

\* C20: the class map of scenario 4, `@exclude on and off;`, compiles in table
\* mode to the table [S, S A, S B, ""] and a function returning the entry at
\* index (on ? 1 : 0) | (off ? 2 : 0); an @exclude rule naming an identifier
\* that is not a previously declared state never ends in a panic.
C20_Scenario4 ==
    /\ ret.op = "parse_at_class_map" => "panic" \notin DOMAIN ret.result
    /\ (ret.op = "parse_at_class_map" /\ ret.block = Scenario4) => ret.result.ok
    /\ (Emitted /\ ret.block = Scenario4 /\ ret.kind = "Table") =>
           /\ ret.output.table = <<"S", "S A", "S B", "">>
           /\ ret.output.index = <<[name |-> "on", bit |-> 1], [name |-> "off", bit |-> 2]>>

-----------------------------------------------------------------------------
(* join_strings alone *)

\* The strings joined: empty, one word, several words.
JoinStrings == {"", "a", "b", "S", "A B", "x y z", "base", "a "}

InitJoin ==
    /\ IsMap(CssMap_new({}, ExcludeVar, {}))
    /\ written = <<>>
    /\ mintLog = <<>>
    /\ hist = [imports |-> 0, mints |-> 0, faults |-> 0, lateImport |-> FALSE]
    /\ parser = Parser_new(<<>>)
    /\ yielded = <<>>
    /\ \E a, b \in JoinStrings : ret = [op |-> "strings", a |-> a, b |-> b]

JoinStringsReturns(r) ==
    ret' = [op |-> "join_strings", a |-> ret.a, b |-> ret.b, result |-> r]

JoinStringsCall ==
    /\ ret.op = "strings"
    /\ JoinStringsReturns(join_strings(ret.a, ret.b))
    /\ UNCHANGED <<mapVars, new_ids_buf, written, mintLog, hist, parser, yielded>>

NextJoin == JoinStringsCall

SpecJoin == InitJoin /\ [][NextJoin]_allVars

\* C25: join rule.  join_strings(a, b) is b when a is empty, and otherwise a,
\* one space, then b; join("", "b") = "b", join("", "") = "",
\* join("a", "b") = "a b" and join("a", "") = "a ".
C25_JoinRule ==
    ret.op = "join_strings" =>
        /\ ret.a = "" => ret.result = ret.b
        /\ ret.a # "" =>
             /\ Len(ret.result) = Len(ret.a) + 1 + Len(ret.b)
             /\ SubSeq(ret.result, 1, Len(ret.a)) = ret.a
             /\ SubSeq(ret.result, Len(ret.a) + 1, Len(ret.a) + 1) = " "
             /\ SubSeq(ret.result, Len(ret.a) + 2, Len(ret.result)) = ret.b
        /\ (ret.a = "" /\ ret.b = "b") => ret.result = "b"
        /\ (ret.a = "" /\ ret.b = "") => ret.result = ""
        /\ (ret.a = "a" /\ ret.b = "b") => ret.result = "a b"
        /\ (ret.a = "a" /\ ret.b = "") => ret.result = "a "

\* join("a", "") has returned.
C25_Witness == ret.op = "join_strings" /\ ret.a = "a" /\ ret.b = "" /\ ret.result = "a "

-----------------------------------------------------------------------------
(* More claims about the map, under Spec *)

\* C26: the Id get_id returns carries the requested kind in its kind field,
\* when it is looked up and when it is minted, for each of the three kinds:
\* every Id stored in the sub-map of a kind, which is the Id get_id returns
\* for that kind, has that kind.
C26_IdKind ==
    /\ \A e \in Entries(TheMap) : e.id.kind = e.kind
    /\ \A key \in {k \in GetIdInputs : k[1] < Len(modules)} :
           CssMap_get_id(TheMap, key[1], key[2], key[3]).id.kind = key[2]

\* The places at which the text sub occurs in the text s.
Occurrences(sub, s) ==
    {i \in 1..(Len(s) - Len(sub) + 1) : SubSeq(s, i, i + Len(sub) - 1) = sub}

\* C30: over get_module_index, get_id and flush_new_ids calls, also
\* flush_new_ids calls that return an error, the row of each minted id is handed
\* to the writer at most once.
C30_RowsWrittenOnce ==
    hist.imports = 0 =>
        \A e \in Entries(TheMap) :
            Cardinality(Occurrences(
                RowText([kind |-> e.kind, module_id |-> e.module_id,
                         local_id |-> e.local_id, global_id |-> e.id.global_id]),
                written)) <= 1

-----------------------------------------------------------------------------
(* More claims about the class map, under SpecClassMap *)

\* The string has no leading space, no trailing space and no two consecutive
\* spaces.
NoStraySpaces(s) ==
    s = "" \/ /\ SubSeq(s, 1, 1) # " "
              /\ SubSeq(s, Len(s), Len(s)) # " "
              /\ \A i \in 1..(Len(s) - 1) : SubSeq(s, i, i + 1) # "  "

\* The leaves of the inline expression: the pieces written after an opening
\* quote, which is a quote with an even number of quotes before it.
Leaves(expr) ==
    {expr[p] : p \in {q \in 2..Len(expr) :
                        /\ expr[q - 1] = "\""
                        /\ Cardinality({k \in 1..(q - 2) : expr[k] = "\""}) % 2 = 0}}

\* C27: every string the emitter produces, each table entry and each leaf of
\* the inline expression, has no leading space, no trailing space and no two
\* consecutive spaces, for an empty or non-empty static class list and states
\* with non-empty class lists, under any exclude set.
C27_NoStraySpaces ==
    Emitted =>
        IF ret.kind = "Table"
        THEN \A m \in 1..Len(ret.output.table) : NoStraySpaces(ret.output.table[m])
        ELSE /\ Leaves(ret.output.expr) # {}
             /\ \A s \in Leaves(ret.output.expr) : NoStraySpaces(s)

\* An expression with the leaf "B C" has been emitted for a class map without
\* static classes.
C27_Witness ==
    /\ ret.op = "emit_js" /\ ret.kind = "Inline"
    /\ ret.class_map.static_classes = ""
    /\ "B C" \in Leaves(ret.output.expr)

\* The arguments of mask are permitted by every exclude of the class map.
Permitted(cm, mask) == ~Unsatisfied(cm, mask)

\* C29: inline and table modes agree on permitted inputs.  For every boolean
\* assignment whose mask is satisfied, the emitted inline expression evaluates
\* to the table entry at the index that is the sum of 2^i over the true states
\* i, and the emitted function of either mode returns that string.
C29_ModesAgree ==
    (ret.op = "call" /\ Permitted(ret.class_map, ret.args)) =>
        /\ EvalCond(emit_js(ret.class_map, "Inline").expr, 1, ret.output.params, ret.args).value
               = emit_js(ret.class_map, "Table").table[ret.args + 1]
        /\ ret.value = emit_js(ret.class_map, "Table").table[ret.args + 1]

\* The table function has been called with two true states that are permitted
\* together while another pair is excluded.
C29_Witness ==
    /\ ret.op = "call" /\ ret.kind = "Table"
    /\ ret.class_map.exclude_constraints = <<3>>
    /\ ret.args = 6
    /\ ret.value = "B C"

-----------------------------------------------------------------------------
(* compiler.rs: the module compiler.  A stylesheet is [const_error, rules]; *)
(* a top-level rule is                                                      *)
(*   [rule |-> "style", selectors, dashed, animation]: a qualified rule     *)
(*       with class selectors, dashed identifiers and the identifiers of    *)
(*       its `animation` declaration,                                       *)
(*   [rule |-> "keyframes", name]: `@keyframes name { ... }`,               *)
(*   [rule |-> "extern", ok, kind, imported_id, local_id, module_id], ok    *)
(*       telling whether parse_at_extern accepts the prelude,               *)
(*   [rule |-> "classmap", block].                                          *)
(* The visitor state is [map, scope, class_maps, has_keyframes, errors,     *)
(* new_rules, panic], errors counting the diagnostics the handler holds.    *)

ModuleScope_new(module_index) ==
    [module_index |-> module_index,
     classes |-> EmptyMap, vars |-> EmptyMap, keyframes |-> EmptyMap]

ModuleCompiler_new(css_map, module_index) ==
    [map |-> css_map, scope |-> ModuleScope_new(module_index),
     class_maps |-> <<>>, has_keyframes |-> FALSE, errors |-> 0,
     new_rules |-> <<>>, panic |-> FALSE]

\* ModuleScope::get_id, lines 640-646, and add_extern, line 629: r is what
\* css_map.get_id returned.
ScopeInsert(st, id_kind, local_id, r) ==
    [st EXCEPT !.map = r.map,
               !.scope[KindField(id_kind)] = MapInsert(@, local_id, r.id)]

\* The visitor state after ModuleScope::get_id; the Id returned is then
\* st.scope[KindField(id_kind)][local_id].
ModuleScope_get_id(st, id_kind, local_id) ==
    IF local_id \in DOMAIN st.scope[KindField(id_kind)]
    THEN st
    ELSE ScopeInsert(st, id_kind, local_id,
                     CssMap_get_id(st.map, st.scope.module_index, id_kind, local_id))

ModuleScope_add_extern(st, module_id, id_kind, local_id, imported_id) ==
    IF local_id \in DOMAIN st.scope[KindField(id_kind)]
    THEN st
    ELSE ScopeInsert(st, id_kind, local_id,
                     CssMap_get_id(get_module_index(st.map, module_id).map,
                                   get_module_index(st.map, module_id).index,
                                   id_kind, imported_id))

\* The class names of the blocks explored, as the map holds local ids.
LocalIdOf(c) ==
    CASE c = "base" -> <<98, 97, 115, 101>>
      [] c = "active" -> <<97, 99, 116, 105, 118, 101>>
      [] c = "inactive" -> <<105, 110, 97, 99, 116, 105, 118, 101>>
      [] c = "extra" -> <<101, 120, 116, 114, 97>>
      [] c = "more" -> <<109, 111, 114, 101>>

\* The class names parse_at_class_map resolves, in the order it resolves
\* them: those of each state as it is parsed, then the static ones.
RECURSIVE ClassMapIdents(_, _)
ClassMapIdents(block, static_classes) ==
    IF block = <<>> THEN static_classes
    ELSE (IF block[1].rule = "state" THEN block[1].idents ELSE <<>>)
             \o ClassMapIdents(Tail(block),
                                IF block[1].rule = "static" THEN block[1].idents
                                ELSE static_classes)

\* scope.get_id(kind, c) for each c of a list, in order.
RECURSIVE GetIds(_, _, _)
GetIds(st, id_kind, local_ids) ==
    IF local_ids = <<>> THEN st
    ELSE GetIds(ModuleScope_get_id(st, id_kind, local_ids[1]), id_kind, Tail(local_ids))

ClassMapGetIds(st, block) ==
    GetIds(st, "Class",
           [n \in 1..Len(ClassMapIdents(block, <<>>)) |->
               LocalIdOf(ClassMapIdents(block, <<>>)[n])])

MinStates == 2
MaxStatesNum == 8

\* A visitor without the lower limit on the number of states.
VisitClassMap_no_lower_limit(st, r) ==
    IF ~r.ok THEN [st EXCEPT !.panic = TRUE]
    ELSE IF Len(r.class_map.states) <= MaxStatesNum
    THEN [st EXCEPT !.class_maps = Append(@, r.class_map)]
    ELSE [st EXCEPT !.errors = @ + 1]

\* Lines 770-795, r being what parse_at_class_map returned and st the state
\* after it resolved the class names.
VisitClassMap(st, r) ==
    IF ~r.ok THEN [st EXCEPT !.panic = TRUE]
    ELSE IF Len(r.class_map.states) >= MinStates /\ Len(r.class_map.states) <= MaxStatesNum
    THEN [st EXCEPT !.class_maps = Append(@, r.class_map)]
    ELSE [st EXCEPT !.errors = @ + 1]

\* Lines 753-768.
VisitExtern(st, rule) ==
    IF rule.ok
    THEN ModuleScope_add_extern(st, rule.module_id, rule.kind, rule.local_id,
                                rule.imported_id)
    ELSE [st EXCEPT !.errors = @ + 1]

GlobalIds(st, id_kind, local_ids) ==
    [n \in 1..Len(local_ids) |-> st.scope[KindField(id_kind)][local_ids[n]].global_id]

\* The rule a qualified rule is rewritten to, st being the state after its
\* class selectors and dashed identifiers were resolved (lines 728-736).
VisitStyle(st, rule) ==
    [GetIds(GetIds(st, "Class", rule.selectors), "Var", rule.dashed)
       EXCEPT !.new_rules = Append(@,
        [rule |-> "style",
         selectors |-> GlobalIds(GetIds(st, "Class", rule.selectors), "Class",
                                 rule.selectors),
         dashed |-> GlobalIds(GetIds(GetIds(st, "Class", rule.selectors), "Var",
                                     rule.dashed),
                              "Var", rule.dashed),
         animation |-> rule.animation])]

\* Lines 738-745 and 796-799 on `@keyframes name`.
VisitKeyframes(st, rule) ==
    [ModuleScope_get_id(st, "Keyframes", rule.name)
       EXCEPT !.has_keyframes = TRUE,
              !.new_rules = Append(@,
                  [rule |-> "keyframes",
                   name |-> ModuleScope_get_id(st, "Keyframes", rule.name)
                                .scope.keyframes[rule.name].global_id])]

\* One iteration of the loop of visit_mut_rules.
VisitRule(st, rule) ==
    CASE rule.rule = "extern" -> VisitExtern(st, rule)
      [] rule.rule = "classmap" ->
           VisitClassMap(ClassMapGetIds(st, rule.block),
                         parse_at_class_map(rule.name, rule.block))
      [] rule.rule = "keyframes" -> VisitKeyframes(st, rule)
      [] rule.rule = "style" -> VisitStyle(st, rule)

RECURSIVE visit_mut_rules(_, _)
visit_mut_rules(st, rules) ==
    IF rules = <<>> \/ st.panic THEN st
    ELSE visit_mut_rules(VisitRule(st, rules[1]), Tail(rules))

\* TransformAnimationNames::visit_mut_declaration on the identifiers of one
\* `animation` declaration, scope being the keyframes of the module's scope.
TransformAnimationNames(scope, idents) ==
    [n \in 1..Len(idents) |->
        IF idents[n] \in DOMAIN scope /\ scope[idents[n]].kind = "Keyframes"
        THEN scope[idents[n]].global_id
        ELSE idents[n]]

\* The three artifacts: the rules after the post-pass over the `animation`
\* declarations (lines 41-45), the code emit_js writes for every stored class
\* map, and the names emit_ts lists, each with its Id.
CompilationArtifact(st, class_map_output) ==
    [css |-> IF st.has_keyframes
             THEN [n \in 1..Len(st.new_rules) |->
                     IF st.new_rules[n].rule = "style"
                     THEN [st.new_rules[n] EXCEPT
                             !.animation = TransformAnimationNames(st.scope.keyframes, @)]
                     ELSE st.new_rules[n]]
             ELSE st.new_rules,
     js |-> [n \in 1..Len(st.class_maps) |-> emit_js(st.class_maps[n], class_map_output)],
     ts |-> [classes |-> st.scope.classes, vars |-> st.scope.vars,
             keyframes |-> st.scope.keyframes,
             module_index |-> st.scope.module_index]]

\* What compile leaves and returns, st being the visitor state after the
\* rules: the map, the stylesheet's rules, the stored class maps, and the
\* artifact when no diagnostic was emitted.
CompileReturns(st, class_map_output) ==
    [map |-> st.map,
     panic |-> st.panic,
     ok |-> ~st.panic /\ st.errors = 0,
     rules |-> st.new_rules,
     class_maps |-> st.class_maps,
     artifact |-> IF ~st.panic /\ st.errors = 0
                  THEN Some(CompilationArtifact(st, class_map_output))
                  ELSE None]

CompileModule(gi, stylesheet, class_map_output) ==
    CompileReturns(visit_mut_rules(ModuleCompiler_new(gi.map, gi.index), stylesheet.rules),
                   class_map_output)

\* A compile that hands back the map it was given when it fails.
compile_rolls_back(css_map, module_id, stylesheet, class_map_output) ==
    IF stylesheet.const_error
    THEN [map |-> css_map, panic |-> FALSE, ok |-> FALSE, rules |-> stylesheet.rules,
          class_maps |-> <<>>, artifact |-> None]
    ELSE IF CompileModule(get_module_index(css_map, module_id), stylesheet,
                          class_map_output).ok
    THEN CompileModule(get_module_index(css_map, module_id), stylesheet, class_map_output)
    ELSE [CompileModule(get_module_index(css_map, module_id), stylesheet,
                        class_map_output) EXCEPT !.map = css_map]

\* compile, lines 30-87; const_error tells whether UpdateConstValues emitted a
\* diagnostic.
compile(css_map, module_id, stylesheet, class_map_output) ==
    IF stylesheet.const_error
    THEN [map |-> css_map, panic |-> FALSE, ok |-> FALSE, rules |-> stylesheet.rules,
          class_maps |-> <<>>, artifact |-> None]
    ELSE CompileModule(get_module_index(css_map, module_id), stylesheet, class_map_output)

-----------------------------------------------------------------------------
(* The modules built *)

MaxUpdates == 3

Style(selectors, dashed, animation) ==
    [rule |-> "style", selectors |-> selectors, dashed |-> dashed, animation |-> animation]

Keyframes(name) == [rule |-> "keyframes", name |-> name]

Extern(kind, imported_id, local_id, module_id) ==
    [rule |-> "extern", ok |-> TRUE, kind |-> kind, imported_id |-> imported_id,
     local_id |-> local_id, module_id |-> module_id]

\* An @extern rule parse_at_extern rejects.
InvalidExtern ==
    [rule |-> "extern", ok |-> FALSE, kind |-> "Class", imported_id |-> <<>>,
     local_id |-> <<>>, module_id |-> <<>>]

ClassMapRule(block) == [rule |-> "classmap", name |-> "CN", block |-> block]

Stylesheet(rules) == [const_error |-> FALSE, rules |-> rules]

StateNames == <<"a", "b", "c", "d", "e", "f", "g", "h", "i">>

\* A block of n states.
StatesBlock(n) ==
    [k \in 1..n |-> [rule |-> "state", name |-> StateNames[k],
                     idents |-> <<IF k % 2 = 1 THEN "active" ELSE "inactive">>]]

\* The stylesheets of module "m":
\*   @keyframes k {} .l { --l: 0; animation: k l }
\*   .l {} @extern <invalid>;
\*   .l {} @classmap CN { <n states> } .k {}     for n = 1, 2, 9
\*   @classmap CN { <8 states> } @extern <invalid>;
\*   @classmap CN { @static base; on: active; off: inactive; @exclude on and off; }
\*   a stylesheet with a diagnostic of the const pass
\* and of module "n/x":
\*   @extern class l as k from "m"; .k {}
\*   .k {} @extern class l as k from "m";
\*   @extern keyframes k from "m"; @keyframes l {} .l { animation: k l }
ModuleSources ==
    { [module_id |-> <<109>>,
       stylesheet |-> Stylesheet(<<Keyframes(<<107>>),
                                   Style(<<<<108>>>>, <<<<108>>>>, <<<<107>>, <<108>>>>)>>)],
      [module_id |-> <<109>>,
       stylesheet |-> Stylesheet(<<Style(<<<<108>>>>, <<>>, <<>>), InvalidExtern>>)],
      [module_id |-> <<109>>,
       stylesheet |-> Stylesheet(<<ClassMapRule(Scenario4)>>)],
      [module_id |-> <<109>>,
       stylesheet |-> [const_error |-> TRUE, rules |-> <<Style(<<<<108>>>>, <<>>, <<>>)>>]],
      [module_id |-> <<110, 47, 120>>,
       stylesheet |-> Stylesheet(<<Extern("Class", <<108>>, <<107>>, <<109>>),
                                   Style(<<<<107>>>>, <<>>, <<>>)>>)],
      [module_id |-> <<110, 47, 120>>,
       stylesheet |-> Stylesheet(<<Style(<<<<107>>>>, <<>>, <<>>),
                                   Extern("Class", <<108>>, <<107>>, <<109>>)>>)],
      [module_id |-> <<110, 47, 120>>,
       stylesheet |-> Stylesheet(<<Extern("Keyframes", <<107>>, <<107>>, <<109>>),
                                   Keyframes(<<108>>),
                                   Style(<<<<108>>>>, <<>>, <<<<107>>, <<108>>>>)>>)] }
      \cup { [module_id |-> <<109>>,
              stylesheet |-> Stylesheet(<<Style(<<<<108>>>>, <<>>, <<>>),
                                          ClassMapRule(StatesBlock(n)),
                                          Style(<<<<107>>>>, <<>>, <<>>)>>)] :
             n \in {MinStates - 1, MinStates, MaxStatesNum + 1} }
      \cup { [module_id |-> <<109>>,
              stylesheet |-> Stylesheet(<<ClassMapRule(StatesBlock(MaxStatesNum)),
                                          InvalidExtern>>)] }

\* The map file found at startup: none (or an empty one), a class of "m", a
\* keyframes of "m", or a file that does not parse.
MapFiles ==
    { File(<<>>, <<>>),
      File(<<RowOf("Class", <<109>>, <<108>>, <<99>>)>>, <<>>),
      File(<<RowOf("Keyframes", <<109>>, <<107>>, <<99>>)>>, <<>>),
      File(<<RowOf("Keyframes", <<109>>, <<108>>, <<97>>)>>, <<88>>) }

-----------------------------------------------------------------------------
(* main.rs: the build.  ret holds the step last taken and what the build    *)
(* keeps between steps: the class map output of the run, the entries the    *)
(* map had when the build started, the output files (module id -> the       *)
(* artifact last written), the number of update_module calls, and the      *)
(* module, stylesheet and compile result of the update_module in progress. *)

InitBuild ==
    /\ IsMap(CssMap_new({}, ExcludeVar, {}))
    /\ written = <<>>
    /\ mintLog = <<>>
    /\ hist = [imports |-> 0, mints |-> 0, faults |-> 0, lateImport |-> FALSE]
    /\ parser = Parser_new(<<>>)
    /\ yielded = <<>>
    /\ ret = [op |-> "new"]

\* main, lines 111-148: the map file is imported; an import error ends the run.
Main ==
    /\ ret.op = "new"
    /\ \E reader \in MapFiles, class_map_output \in ClassMapOutputs :
         /\ SetMap(CssMap_import(TheMap, reader).map)
         /\ ret' = IF CssMap_import(TheMap, reader).result.ok
                   THEN [op |-> "main", class_map_output |-> class_map_output,
                         start |-> Entries(CssMap_import(TheMap, reader).map),
                         outputs |-> EmptyMap, updates |-> 0]
                   ELSE [op |-> "exit"]
    /\ UNCHANGED <<written, mintLog, hist, parser, yielded>>

\* update_module, lines 216-224 and 251-253: the module is compiled; on Err
\* the error is logged and update_module returns Ok.
CompileStepReturns(src, r) ==
    /\ SetMap(r.map)
    /\ ret' = [op |-> "compile", class_map_output |-> ret.class_map_output,
               start |-> ret.start, outputs |-> ret.outputs,
               updates |-> ret.updates + 1,
               module_id |-> src.module_id, stylesheet |-> src.stylesheet,
               result |-> [ok |-> r.ok, panic |-> r.panic, rules |-> r.rules,
                           class_maps |-> r.class_maps, artifact |-> r.artifact]]

CompileStep ==
    /\ \/ ret.op \in {"main", "update_module"}
       \/ ret.op = "compile" /\ ~ret.result.ok /\ ~ret.result.panic
    /\ ret.updates < MaxUpdates
    /\ \E src \in ModuleSources :
         CompileStepReturns(src, compile(TheMap, src.module_id, src.stylesheet,
                                         ret.class_map_output))
    /\ UNCHANGED <<written, mintLog, hist, parser, yielded>>

\* Lines 225-228: flush_new_ids, whose Err update_module and build propagate.
FlushStepReturns(r) ==
    /\ new_ids_buf' = r.new_ids_buf
    /\ written' = written \o r.taken
    /\ ret' = [ret EXCEPT !.op = IF r.ok THEN "flush_new_ids" ELSE "build_err"]

FlushNewIdsStep ==
    /\ ret.op = "compile"
    /\ ret.result.ok
    /\ \E w \in WriterOutcomes(Len(new_ids_buf)) :
         FlushStepReturns(CssMap_flush_new_ids(new_ids_buf, w))
    /\ UNCHANGED <<mapVars, mintLog, hist, parser, yielded>>

\* Lines 229-249: the three output files of the module are written.
WriteOutputs ==
    /\ ret.op = "flush_new_ids"
    /\ ret' = [ret EXCEPT !.op = "update_module",
                          !.outputs = MapInsert(@, ret.module_id, ret.result.artifact.v)]
    /\ UNCHANGED <<mapVars, new_ids_buf, written, mintLog, hist, parser, yielded>>

NextBuild == Main \/ CompileStep \/ FlushNewIdsStep \/ WriteOutputs

SpecBuild == InitBuild /\ [][NextBuild]_allVars

-----------------------------------------------------------------------------
(* Claims about the module compiler and the build, under SpecBuild *)

\* The positions of the @classmap rules of a list of rules.
ClassMapRules(rules) == {n \in 1..Len(rules) : rules[n].rule = "classmap"}

\* The number of state rules of a block.
StatesNum(block) == Cardinality({k \in 1..Len(block) : block[k].rule = "state"})

\* compile returned without a panic for a stylesheet the const pass accepted.
Compiled ==
    ret.op = "compile" /\ ~ret.stylesheet.const_error /\ ~ret.result.panic

\* C21: after a module was compiled, every @classmap rule of its stylesheet
\* with fewer than 2 or more than 8 state rules made the compilation fail
\* (a diagnostic was emitted, compile returned no artifact) and was not stored
\* among the class maps to emit; every @classmap rule with 2 to 8 state rules
\* was stored; and in both cases the rule list of the stylesheet holds no
\* @classmap rule and holds the other rules, in their order.
C21_ClassMapValidation ==
    Compiled =>
       /\ \A n \in ClassMapRules(ret.stylesheet.rules) :
            IF StatesNum(ret.stylesheet.rules[n].block) < 2
                 \/ StatesNum(ret.stylesheet.rules[n].block) > 8
            THEN /\ ~ret.result.ok
                 /\ ret.result.artifact = None
                 /\ \A k \in 1..Len(ret.result.class_maps) :
                      Len(ret.result.class_maps[k].states)
                          # StatesNum(ret.stylesheet.rules[n].block)
            ELSE \E k \in 1..Len(ret.result.class_maps) :
                   ret.result.class_maps[k] =
                       parse_at_class_map(ret.stylesheet.rules[n].name,
                                          ret.stylesheet.rules[n].block).class_map
       /\ ClassMapRules(ret.result.rules) = {}
       /\ [k \in 1..Len(ret.result.rules) |-> ret.result.rules[k].rule]
            = SelectSeq([k \in 1..Len(ret.stylesheet.rules) |-> ret.stylesheet.rules[k].rule],
                        LAMBDA x : x \in {"style", "keyframes"})

\* A stylesheet with a class map of 9 states was compiled, and failed.
C21_Witness ==
    /\ Compiled
    /\ \E n \in ClassMapRules(ret.stylesheet.rules) :
         StatesNum(ret.stylesheet.rules[n].block) = 9
    /\ ~ret.result.ok

\* The row of an entry of the map.
RowOfEntry(e) ==
    RowText([kind |-> e.kind, module_id |-> e.module_id, local_id |-> e.local_id,
             global_id |-> e.id.global_id])

\* The class selectors of a list of rules that no @extern rule binds.
OwnSelectors(rules) ==
    UNION { { rules[n].selectors[k] : k \in 1..Len(rules[n].selectors) } :
            n \in {x \in 1..Len(rules) : rules[x].rule = "style"} }
      \ { rules[n].local_id :
            n \in {x \in 1..Len(rules) : rules[x].rule = "extern" /\ rules[x].ok} }

\* The step is a compile that returned failure.
FailedCompileStep == ret'.op = "compile" /\ ~ret'.result.ok /\ ~ret'.result.panic

\* C22: a compile that fails returns no artifact, and update_module then
\* writes no output file and hands nothing to the writer; the modules and the
\* ids the map held are kept, the class selectors of the stylesheet have
\* their ids in the map, and the row of each id the failed compilation
\* minted is in the pending buffer, after the rows that were pending.  The pending rows stay until flush_new_ids is called,
\* which happens only after a compile that succeeded, and that call writes
\* from the start of the pending buffer.
C22_FailureMode ==
    /\ [][FailedCompileStep =>
            /\ ret'.result.artifact = None
            /\ ret'.outputs = ret.outputs
            /\ written' = written
            /\ IsPrefix([i \in 1..Len(modules) |-> modules[i].id],
                        [i \in 1..Len(modules') |-> modules'[i].id])
            /\ Entries(TheMap) \subseteq Entries(TheMap')
            /\ ~ret'.stylesheet.const_error =>
                  \A c \in OwnSelectors(ret'.stylesheet.rules) :
                     Lookup(TheMap', ret'.module_id, "Class", c) # <<>>
            /\ IsPrefix(new_ids_buf, new_ids_buf')
            /\ \A e \in Entries(TheMap') \ Entries(TheMap) :
                 \E i \in Occurrences(RowOfEntry(e), new_ids_buf') : i > Len(new_ids_buf)
       ]_allVars
    /\ [][\/ /\ written' = written
               /\ IsPrefix(new_ids_buf, new_ids_buf')
            \/ /\ ret.op = "compile" /\ ret.result.ok
               /\ ret'.op \in {"flush_new_ids", "build_err"}
               /\ \E n \in 0..Len(new_ids_buf) :
                    written' = written \o SubSeq(new_ids_buf, 1, n)
       ]_allVars

\* The first compile of a build that imported nothing failed after it had
\* minted an id: the row is pending, nothing was written.
C22_Witness ==
    /\ ret.op = "compile" /\ ~ret.result.ok /\ ~ret.result.panic
    /\ ret.updates = 1 /\ ret.start = {}
    /\ Entries(TheMap) # {}
    /\ new_ids_buf # <<>>
    /\ written = <<>>
    /\ ret.outputs = EmptyMap

\* The positions of the @extern rules parse_at_extern accepts.
ExternRules(rules) == {n \in 1..Len(rules) : rules[n].rule = "extern" /\ rules[n].ok}

\* The binding of an @extern rule holds in map m for the scope `ts` of the
\* module compiled: the local resolves to the Id get_id(index of MODULE, KIND,
\* NAME) yields, whose module_index is that of MODULE.
ExternBound(m, ts, rule) ==
    /\ rule.module_id \in DOMAIN m.index
    /\ rule.local_id \in DOMAIN ts[KindField(rule.kind)]
    /\ ts[KindField(rule.kind)][rule.local_id]
         = CssMap_get_id(m, m.index[rule.module_id], rule.kind, rule.imported_id).id
    /\ ts[KindField(rule.kind)][rule.local_id].module_index = m.index[rule.module_id]
    /\ ts[KindField(rule.kind)][rule.local_id].global_id
         = Lookup(m, rule.module_id, rule.kind, rule.imported_id)

\* C23: when a module was compiled, each `@extern KIND NAME as LOCAL from
\* MODULE` of its stylesheet, wherever it stands among the rules, left LOCAL
\* resolving in the module's scope to the Id get_id(index of MODULE, KIND,
\* NAME) yields, with the module_index of MODULE and not that of the module
\* compiled; when MODULE or NAME was not in the map before, the row of the id
\* was appended to the pending buffer under MODULE's id.
C23_ExternResolves ==
    [][ret'.op = "compile" /\ ret'.result.ok =>
         \A n \in ExternRules(ret'.stylesheet.rules) :
            /\ ExternBound(TheMap', ret'.result.artifact.v.ts, ret'.stylesheet.rules[n])
            /\ ret'.result.artifact.v.ts.module_index
                 # index'[ret'.stylesheet.rules[n].module_id]
            /\ Lookup(TheMap, ret'.stylesheet.rules[n].module_id,
                      ret'.stylesheet.rules[n].kind,
                      ret'.stylesheet.rules[n].imported_id) = <<>> =>
                 \E i \in Occurrences(
                       RowText([kind |-> ret'.stylesheet.rules[n].kind,
                                module_id |-> ret'.stylesheet.rules[n].module_id,
                                local_id |-> ret'.stylesheet.rules[n].imported_id,
                                global_id |-> Lookup(TheMap',
                                    ret'.stylesheet.rules[n].module_id,
                                    ret'.stylesheet.rules[n].kind,
                                    ret'.stylesheet.rules[n].imported_id)]),
                       new_ids_buf') : i > Len(new_ids_buf)
      ]_allVars

\* The identifier lists of the `animation` declarations of a list of rules.
Animations(rules) ==
    SelectSeq([n \in 1..Len(rules) |->
                  IF rules[n].rule = "style" THEN <<rules[n].animation>> ELSE <<>>],
              LAMBDA x : x # <<>>)

\* C24: when a module whose stylesheet declares an @keyframes was compiled, in
\* every `animation` declaration of the emitted rules each identifier that is
\* a keyframes name of the module's scope stands rewritten to the global id
\* of that keyframes, and every other identifier stands as it was written.
C24_AnimationNames ==
    (/\ ret.op = "compile" /\ ret.result.ok
     /\ \E n \in 1..Len(ret.stylesheet.rules) : ret.stylesheet.rules[n].rule = "keyframes")
    => \A n \in 1..Len(Animations(ret.stylesheet.rules)) :
         \A k \in 1..Len(Animations(ret.stylesheet.rules)[n][1]) :
            Animations(ret.result.artifact.v.css)[n][1][k] =
               IF Animations(ret.stylesheet.rules)[n][1][k]
                     \in DOMAIN ret.result.artifact.v.ts.keyframes
               THEN ret.result.artifact.v.ts.keyframes[
                        Animations(ret.stylesheet.rules)[n][1][k]].global_id
               ELSE Animations(ret.stylesheet.rules)[n][1][k]

\* The Ids the declaration file of an artifact lists, each with its kind.
Referenced(ts) ==
    UNION { { [kind |-> k, id |-> ts[KindField(k)][l]] : l \in DOMAIN ts[KindField(k)] } :
            k \in IdKinds }

\* The entries of the map m that hold a referenced Id.
EntriesOf(m, ref) ==
    { e \in Entries(m) :
        /\ e.kind = ref.kind
        /\ e.id = ref.id
        /\ e.module_id = m.modules[ref.id.module_index + 1].id }

\* C28: the output files of a module are written only in the step that
\* follows a flush_new_ids that returned Ok, itself made after the module's
\* compilation succeeded; every Id the written artifact refers to is then in
\* the map, and its row was in the map file when the build started or has
\* been taken by the map writer; a flush that fails leaves the output files
\* as they were and ends the build.
C28_BuildOrdering ==
    /\ [][ret'.op = "update_module" =>
            /\ ret.op = "flush_new_ids"
            /\ ret.result.ok
            /\ ret'.outputs[ret.module_id] = ret.result.artifact.v
            /\ \A ref \in Referenced(ret.result.artifact.v.ts) :
                 /\ EntriesOf(TheMap, ref) # {}
                 /\ \A e \in EntriesOf(TheMap, ref) :
                      e \in ret.start \/ Occurrences(RowOfEntry(e), written) # {}
       ]_allVars
    /\ [][ret'.op = "flush_new_ids" => ret.op = "compile" /\ ret.result.ok]_allVars
    /\ [][ret.op \notin {"new", "exit"} /\ ret'.op # "update_module"
            => ret'.outputs = ret.outputs]_allVars
    /\ [][ret.op # "build_err"]_allVars
=============================================================================
